---- MODULE Spec2Model ----
(***************************************************************************)
(* State-consistency engine of openclaw-state-consistency                  *)
(* (scripts/state-consistency.js): ingestion, decision resolver,           *)
(* pending-confirmation lifecycle, review-queue promotion, signal adapter  *)
(* and the HEARTBEAT.md projection.                                        *)
(*                                                                         *)
(* Numbers: confidences and thresholds are integers in thousandths         *)
(* (0.9 -> 900); source reliabilities, intent factors and the              *)
(* corroboration factor are in hundredths.  Time is an integer clock in     *)
(* hours, which Tick advances by HoursPerTick.  randomUuid() is a fresh    *)
(* value taken from the counter nextUuid.  sha256 is modelled as a         *)
(* collision-free tag.                                                     *)
(***************************************************************************)
EXTENDS Integers, Sequences, FiniteSets, TLC

\* ------------------------------------------------------------------------
\* Bounds of the model
\* ------------------------------------------------------------------------
MaxNow == 1
MaxAudit == 3
MaxSignalAudit == 4
MaxProjectionAudit == 5
MaxProjectionEvents == 2
MaxDlq == 1
MaxItems == 2
MaxEvents == 3
MaxLifecycleEvents == 2
MaxDlqLines == 9
MaxSeeds == 2
MaxHours == 1
MaxLearnerAudit == 4
MaxStreamAudit == 5
MaxReviewEvents == 3
MaxReviewAudit == 4
MaxSession == 3
MaxLoopEvents == 2
MaxSends == 3
MaxRaceAudit == 6
MaxRaceUuid == 4
MaxPromoteAudit == 4

\* ------------------------------------------------------------------------
\* Program constants
\* ------------------------------------------------------------------------
\* Caps of processed_event_ids / tentative_observations: 5000 / 1000 in the
\* program, bounds of the model here so that eviction is reachable.
MAX_PROCESSED_EVENT_IDS == 2
MAX_TENTATIVE_OBSERVATIONS == 2
CHANGE_LOG_TAIL == 20
RECENCY_WINDOW_HOURS == 168
DEFAULT_MIN_CONFIDENCE == 400

\* Tick advances the clock by half the recency window
HoursPerTick == RECENCY_WINDOW_HOURS \div 2

\* JSON null and a missing property, both distinct from every string value
NULL == "<null>"
NoValue == "<undefined>"
NoId == <<"none">>
NoTs == -1
\* an option or a part that is not given
Absent == -1

VALID_DOMAINS == {"travel", "family", "project", "financial", "profile", "school", "general"}

DOMAIN_DEFAULTS ==
  [d \in VALID_DOMAINS |->
     CASE d = "travel"    -> [ask_threshold |-> 650, auto_threshold |-> 900, margin_threshold |-> 150]
       [] d = "family"    -> [ask_threshold |-> 650, auto_threshold |-> 900, margin_threshold |-> 150]
       [] d = "project"   -> [ask_threshold |-> 650, auto_threshold |-> 900, margin_threshold |-> 200]
       [] d = "financial" -> [ask_threshold |-> 700, auto_threshold |-> 920, margin_threshold |-> 200]
       [] d = "profile"   -> [ask_threshold |-> 700, auto_threshold |-> 950, margin_threshold |-> 250]
       [] d = "school"    -> [ask_threshold |-> 650, auto_threshold |-> 900, margin_threshold |-> 150]
       [] d = "general"   -> [ask_threshold |-> 700, auto_threshold |-> 920, margin_threshold |-> 200]]

SOURCE_TYPES ==
  {"conversation_assertive", "conversation_planning", "calendar_poll", "calendar_webhook",
   "email_poll", "email_webhook", "transactions_email", "static_markdown", "manual_markdown",
   "system_migration", "user_confirmation"}

\* hundredths
SOURCE_RELIABILITY_DEFAULTS ==
  [s \in SOURCE_TYPES |->
     CASE s = "conversation_assertive" -> 90
       [] s = "conversation_planning"  -> 75
       [] s = "calendar_poll"          -> 85
       [] s = "calendar_webhook"       -> 90
       [] s = "email_poll"             -> 84
       [] s = "email_webhook"          -> 88
       [] s = "transactions_email"     -> 88
       [] s = "static_markdown"        -> 60
       [] s = "manual_markdown"        -> 75
       [] s = "system_migration"       -> 72
       [] s = "user_confirmation"      -> 100]

VALID_INTENTS == {"assertive", "planning", "hypothetical", "historical", "retract"}

\* hundredths
INTENT_FACTORS ==
  [i \in VALID_INTENTS |->
     CASE i = "assertive"    -> 100
       [] i = "planning"     -> 72
       [] i = "hypothetical" -> 45
       [] i = "historical"   -> 68
       [] i = "retract"      -> 95]

\* ------------------------------------------------------------------------
\* Small helpers
\* ------------------------------------------------------------------------
Min(a, b) == IF a <= b THEN a ELSE b
Max(a, b) == IF a >= b THEN a ELSE b

clamp(value, lo, hi) == Max(lo, Min(hi, value))

Range(s) == {s[i] : i \in 1..Len(s)}

Includes(s, x) == x \in Range(s)

\* Array.prototype.splice(0, n): drop the n oldest elements
DropOldest(s, n) == SubSeq(s, n + 1, Len(s))

\* Array.prototype.slice(0, n)
Take(s, n) == SubSeq(s, 1, Min(n, Len(s)))

\* Array.prototype.slice(-n)
Last(s, n) == SubSeq(s, Max(1, Len(s) - n + 1), Len(s))

\* position of the first element equal to x, 0 if none (indexOf, 1-based)
IndexOf(s, x) ==
  IF \E i \in 1..Len(s) : s[i] = x
  THEN CHOOSE i \in 1..Len(s) : s[i] = x /\ \A j \in 1..(i - 1) : s[j] # x
  ELSE 0

\* ------------------------------------------------------------------------
\* State
\* ------------------------------------------------------------------------
VARIABLES
  entities,                 \* entity_id -> domain -> field key -> StateRecord
  pending_confirmations,    \* prompts in insertion order (Object.values order)
  tentative_observations,   \* list of TentativeObservation
  processed_event_ids,      \* list of event ids
  learning_stats,           \* counters
  runtime,                  \* projection_hashes, last_poll_at, last_review_queue_at,
                            \* adaptive_learning
  domains,                  \* domain -> thresholds
  last_consistency_check,   \* written by every saveState
  audit,                    \* memory/state-changes.md, the "- " lines
  dlq,                      \* memory/state-dlq.jsonl
  learning_events,          \* memory/state-learning-events.jsonl
  heartbeat,                \* HEARTBEAT.md as a sequence of characters/tokens
  now,                      \* Date.now()
  nextUuid,                 \* source of randomUuid()
  review,                   \* memory/state-telegram-review-state.json
  session,                  \* the user messages of the chat session file, in order
  outbox,                   \* what the last call sent to the chat, in order
  dispatched,               \* the prompts shown in the chat so far, and when
  decisions,                \* which reply was applied to which prompt, in order
  loaded,                   \* process -> the document it has read and not yet saved
  last                      \* the last call and what it returned

doc == <<entities, pending_confirmations, tentative_observations, processed_event_ids,
         learning_stats, runtime, domains, last_consistency_check>>

files == <<audit, dlq, learning_events, heartbeat>>

vars == <<entities, pending_confirmations, tentative_observations, processed_event_ids,
          learning_stats, runtime, domains, last_consistency_check, audit, dlq,
          learning_events,
          heartbeat, now, nextUuid, review, session, outbox, dispatched, decisions,
          loaded, last>>

\* the review worker's runtime file, the chat session and the chat itself,
\* and the processes that are between their read and their write
chat == <<review, session, outbox, dispatched, decisions, loaded>>

\* ------------------------------------------------------------------------
\* Object helpers (JS objects as functions with a finite domain)
\* ------------------------------------------------------------------------
EmptyObj == [x \in {} |-> 0]

Put(f, k, v) == [x \in (DOMAIN f) \cup {k} |-> IF x = k THEN v ELSE f[x]]

Del(f, k) == [x \in (DOMAIN f) \ {k} |-> f[x]]

\* ------------------------------------------------------------------------
\* Schema validation (schemas/*.schema.json)
\* ------------------------------------------------------------------------
VALID_ENTITY_IDS == {"user:primary", "team:core"}

\* a string longer than the observation schema allows for candidate_value
OVERLONG == "<overlong>"

\* a payload that is JSON null: not an object, and falsy
JsonNull == [json |-> "null"]

validateObservation(o) ==
  /\ o # JsonNull
  /\ o.domain \in VALID_DOMAINS
  /\ o.intent \in VALID_INTENTS
  /\ o.source.type \in SOURCE_TYPES
  /\ o.entity_id \in VALID_ENTITY_IDS
  /\ o.candidate_value # NoValue
  /\ o.candidate_value # OVERLONG

validateConfirmation(c) ==
  /\ c.domain \in VALID_DOMAINS
  /\ c.entity_id \in VALID_ENTITY_IDS
  /\ c.action \in {"confirm", "reject", "edit"}
  /\ (c.action = "edit") <=> (c.edited_value # NoValue)
  /\ c.confidence \in 0..1000

validateSignal(s) ==
  /\ s.source.kind \in {"calendar", "email"}
  /\ s.source.mode \in {"poll", "webhook"}
  /\ s.entity_id \in VALID_ENTITY_IDS
  /\ \A i \in 1..Len(s.items) :
        /\ s.items[i].domain \in VALID_DOMAINS
        /\ s.items[i].intent \in VALID_INTENTS \cup {NoValue}
        /\ s.items[i].value # OVERLONG

\* ------------------------------------------------------------------------
\* DLQ
\* ------------------------------------------------------------------------
DLQ_RETRY_SCHEDULE_MS == <<60000, 300000, 1800000, 7200000>>

\* mutation: every retry waits the first interval
computeDlqNextRetryTs_FirstInterval(retryCount, t) ==
  [base |-> t, wait_ms |-> DLQ_RETRY_SCHEDULE_MS[1]]

\* new Date(Date.now() + waitMs): the clock value and the wait added to it
computeDlqNextRetryTs(retryCount, t) ==
  [base |-> t,
   wait_ms |-> DLQ_RETRY_SCHEDULE_MS[Min(Max(0, retryCount), Len(DLQ_RETRY_SCHEDULE_MS) - 1) + 1]]

\* the next_retry_ts / payload of a DLQ line that carries none
NoRetryTs == [base |-> NoTs, wait_ms |-> 0]
NoPayload == [none |-> TRUE]

\* one line of the DLQ log; an "entry" line is written by writeDlqEntry, an
\* "update" line by appendDlqUpdate, and the fields a line does not carry are
\* NoPayload / NoTs / NoRetryTs / "" (validation_errors and last_error, which no
\* decision reads, are left out)
DlqLine(line, dlqId, schemaName, payload, firstSeenTs, retryCount, nextRetryTs, status, lastRetryTs, lastResultStatus, resolvedAt) ==
  [line |-> line, dlq_id |-> dlqId, schema_name |-> schemaName, payload |-> payload,
   first_seen_ts |-> firstSeenTs, retry_count |-> retryCount,
   next_retry_ts |-> nextRetryTs, status |-> status, last_retry_ts |-> lastRetryTs,
   last_result_status |-> lastResultStatus, resolved_at |-> resolvedAt]

writeDlqEntry(q, schemaName, payload, uuid, t) ==
  Append(q, DlqLine("entry", uuid, schemaName, payload, t, 0,
                    computeDlqNextRetryTs(0, t), "pending_retry", NoTs, "", NoTs))

appendDlqUpdate(q, entry, update) ==
  Append(q, [update EXCEPT !.dlq_id = entry.dlq_id, !.schema_name = entry.schema_name])

\* { ...previous, ...record }: the fields the record carries win
MergeDlq(previous, record) ==
  IF record.line = "entry" THEN record
  ELSE [previous EXCEPT
          !.schema_name = record.schema_name,
          !.retry_count = record.retry_count,
          !.next_retry_ts = IF record.next_retry_ts = NoRetryTs THEN @
                            ELSE record.next_retry_ts,
          !.status = record.status,
          !.last_retry_ts = record.last_retry_ts,
          !.last_result_status = record.last_result_status,
          !.resolved_at = IF record.resolved_at = NoTs THEN @ ELSE record.resolved_at]

\* Array.from(byId.values()) after the first n lines: one folded entry per
\* dlq_id, in the order of first appearance
RECURSIVE FoldDlq(_, _)
FoldDlq(lines, n) ==
  IF n = 0 THEN <<>>
  ELSE LET record == lines[n]
           Set(entries) ==
             LET at == {i \in 1..Len(entries) : entries[i].dlq_id = record.dlq_id}
             IN IF at = {}
                THEN Append(entries,
                            MergeDlq(DlqLine("update", record.dlq_id, "", NoPayload, NoTs,
                                             Absent, NoRetryTs, "", NoTs, "", NoTs),
                                     record))
                ELSE [entries EXCEPT ![CHOOSE i \in at : TRUE] = MergeDlq(@, record)]
       IN CHOOSE folded \in {Set(entries) : entries \in {FoldDlq(lines, n - 1)}} : TRUE

loadDlqState(lines) == FoldDlq(lines, Len(lines))

\* ------------------------------------------------------------------------
\* Confidence and decision resolver
\* ------------------------------------------------------------------------

\* "travel.location" is <<"travel", "location">>; the key drops the "<domain>." prefix
fieldKeyFromObservation(o) ==
  IF Len(o.field) > 1 /\ o.field[1] = o.domain THEN Tail(o.field) ELSE o.field

HasRecord(ents, e, d, k) ==
  /\ e \in DOMAIN ents
  /\ d \in DOMAIN ents[e]
  /\ k \in DOMAIN ents[e][d]

getCurrentFieldConfidence(ents, o) ==
  IF HasRecord(ents, o.entity_id, o.domain, fieldKeyFromObservation(o))
  THEN ents[o.entity_id][o.domain][fieldKeyFromObservation(o)].confidence
  ELSE 0

\* thousandths
recencyFactor(eventTs, t) ==
  LET ageHours == Max(0, t - eventTs)
      decayed == 1000 - (Min(ageHours, RECENCY_WINDOW_HOURS) * 600) \div RECENCY_WINDOW_HOURS
  IN clamp(decayed, 400, 1000)

\* thousandths, rounded half up like round3
computeConfidence(o, t) ==
  LET source == IF o.source.type \in SOURCE_TYPES
                THEN SOURCE_RELIABILITY_DEFAULTS[o.source.type] ELSE 50
      intent == IF o.intent \in VALID_INTENTS THEN INTENT_FACTORS[o.intent] ELSE 50
      recency == recencyFactor(o.event_ts, t)
      corroboration == clamp(100 + Len(o.corroborators) * 5, 100, 120)
      product == source * intent * recency * corroboration
  IN (clamp(product, 0, 1000000000) + 500000) \div 1000000

\* mutation: the margin must exceed the threshold strictly
resolveDecision_StrictMargin(ents, o, confidence, forceCommit) ==
  LET domainCfg == IF o.domain \in DOMAIN domains THEN domains[o.domain]
                   ELSE DOMAIN_DEFAULTS["general"]
      currentConfidence == getCurrentFieldConfidence(ents, o)
      margin == confidence - currentConfidence
  IN IF forceCommit
     THEN [decision |-> "auto_commit", margin |-> 1000, reasons |-> <<"force_commit=true">>]
     ELSE IF confidence >= domainCfg.auto_threshold /\ margin > domainCfg.margin_threshold
     THEN [decision |-> "auto_commit", margin |-> margin,
           reasons |-> <<"confidence >= auto_threshold", "margin >= margin_threshold">>]
     ELSE IF confidence >= domainCfg.ask_threshold
     THEN [decision |-> "ask_user", margin |-> margin,
           reasons |-> <<"confidence >= ask_threshold",
                         "confidence below auto-threshold or insufficient margin">>]
     ELSE [decision |-> "tentative_reject", margin |-> margin,
           reasons |-> <<"confidence < ask_threshold">>]

\* mutation: the ask band has no lower edge
resolveDecision_AskBelowThreshold(ents, o, confidence, forceCommit) ==
  LET domainCfg == IF o.domain \in DOMAIN domains THEN domains[o.domain]
                   ELSE DOMAIN_DEFAULTS["general"]
      margin == confidence - getCurrentFieldConfidence(ents, o)
  IN IF forceCommit
     THEN [decision |-> "auto_commit", margin |-> 1000, reasons |-> <<"force_commit=true">>]
     ELSE IF confidence >= domainCfg.auto_threshold /\ margin >= domainCfg.margin_threshold
     THEN [decision |-> "auto_commit", margin |-> margin,
           reasons |-> <<"confidence >= auto_threshold", "margin >= margin_threshold">>]
     ELSE [decision |-> "ask_user", margin |-> margin,
           reasons |-> <<"confidence >= ask_threshold",
                         "confidence below auto-threshold or insufficient margin">>]

resolveDecision(ents, o, confidence, forceCommit) ==
  LET domainCfg == IF o.domain \in DOMAIN domains THEN domains[o.domain]
                   ELSE DOMAIN_DEFAULTS["general"]
      currentConfidence == getCurrentFieldConfidence(ents, o)
      margin == confidence - currentConfidence
  IN IF forceCommit
     THEN [decision |-> "auto_commit", margin |-> 1000, reasons |-> <<"force_commit=true">>]
     ELSE IF confidence >= domainCfg.auto_threshold /\ margin >= domainCfg.margin_threshold
     THEN [decision |-> "auto_commit", margin |-> margin,
           reasons |-> <<"confidence >= auto_threshold", "margin >= margin_threshold">>]
     ELSE IF confidence >= domainCfg.ask_threshold
     THEN [decision |-> "ask_user", margin |-> margin,
           reasons |-> <<"confidence >= ask_threshold",
                         "confidence below auto-threshold or insufficient margin">>]
     ELSE [decision |-> "tentative_reject", margin |-> margin,
           reasons |-> <<"confidence < ask_threshold">>]

stringifyValue(value) == IF value = NULL THEN "null" ELSE value

ensureEntityState(ents, e, d) ==
  LET withEntity == IF e \in DOMAIN ents THEN ents ELSE Put(ents, e, EmptyObj)
  IN IF d \in DOMAIN withEntity[e] THEN withEntity
     ELSE Put(withEntity, e, Put(withEntity[e], d, EmptyObj))

\* mutation: a record that exists keeps its source and event_id when its value
\* is replaced
applyCommittedObservation_KeepsProvenance(ents, o, confidence) ==
  LET fieldKey == fieldKeyFromObservation(o)
      ensured == ensureEntityState(ents, o.entity_id, o.domain)
      domainState == ensured[o.entity_id][o.domain]
      newDomainState ==
        IF o.intent = "retract" \/ o.candidate_value = NULL
        THEN Del(domainState, fieldKey)
        ELSE Put(domainState, fieldKey,
                 [value |-> o.candidate_value, last_update |-> o.event_ts,
                  source |-> IF fieldKey \in DOMAIN domainState
                             THEN domainState[fieldKey].source ELSE o.source.type,
                  confidence |-> confidence,
                  event_id |-> IF fieldKey \in DOMAIN domainState
                               THEN domainState[fieldKey].event_id ELSE o.event_id])
  IN Put(ensured, o.entity_id, Put(ensured[o.entity_id], o.domain, newDomainState))

\* mutation: a retraction stores a record without a value instead of deleting
applyCommittedObservation_RetractKeepsRecord(ents, o, confidence) ==
  LET fieldKey == fieldKeyFromObservation(o)
      ensured == ensureEntityState(ents, o.entity_id, o.domain)
      domainState == ensured[o.entity_id][o.domain]
      newDomainState ==
        Put(domainState, fieldKey,
            [value |-> o.candidate_value, last_update |-> o.event_ts,
             source |-> o.source.type, confidence |-> confidence,
             event_id |-> o.event_id])
  IN Put(ensured, o.entity_id, Put(ensured[o.entity_id], o.domain, newDomainState))

applyCommittedObservation(ents, o, confidence) ==
  LET fieldKey == fieldKeyFromObservation(o)
      ensured == ensureEntityState(ents, o.entity_id, o.domain)
      domainState == ensured[o.entity_id][o.domain]
      newDomainState ==
        IF o.intent = "retract" \/ o.candidate_value = NULL
        THEN Del(domainState, fieldKey)
        ELSE Put(domainState, fieldKey,
                 [value |-> o.candidate_value, last_update |-> o.event_ts,
                  source |-> o.source.type, confidence |-> confidence,
                  event_id |-> o.event_id])
  IN Put(ensured, o.entity_id, Put(ensured[o.entity_id], o.domain, newDomainState))

\* mutation: the event id is not recorded
pushProcessedEventId_Forget(ids, eventId) == ids

\* mutation: the eviction keeps only the newest id
pushProcessedEventId_KeepNewest(ids, eventId) ==
  IF Includes(ids, eventId) THEN ids ELSE <<eventId>>

\* mutation: a full list evicts its newest id instead of its oldest
pushProcessedEventId_EvictNewest(ids, eventId) ==
  IF Includes(ids, eventId) THEN ids
  ELSE IF Len(ids) >= MAX_PROCESSED_EVENT_IDS
       THEN Append(SubSeq(ids, 1, MAX_PROCESSED_EVENT_IDS - 1), eventId)
       ELSE Append(ids, eventId)

pushProcessedEventId(ids, eventId) ==
  IF Includes(ids, eventId) THEN ids
  ELSE LET pushed == Append(ids, eventId)
       IN IF Len(pushed) > MAX_PROCESSED_EVENT_IDS
          THEN DropOldest(pushed, Len(pushed) - MAX_PROCESSED_EVENT_IDS)
          ELSE pushed

pushTentativeObservation(tents, o, confidence, reasons, t) ==
  LET pushed == Append(tents, [observed_at |-> t, event_id |-> o.event_id,
                               event_ts |-> o.event_ts, entity_id |-> o.entity_id,
                               domain |-> o.domain, field |-> o.field,
                               candidate_value |-> o.candidate_value, intent |-> o.intent,
                               source |-> o.source, corroborators |-> o.corroborators,
                               confidence |-> confidence, reasons |-> reasons,
                               promoted_at |-> NoTs, prompt_id |-> NoId])
  IN IF Len(pushed) > MAX_TENTATIVE_OBSERVATIONS
     THEN DropOldest(pushed, Len(pushed) - MAX_TENTATIVE_OBSERVATIONS)
     ELSE pushed

createPendingPrompt(o, reasons, confidence, uuid, t) ==
  [prompt_id |-> uuid, entity_id |-> o.entity_id, domain |-> o.domain,
   proposed_change |-> <<o.field, stringifyValue(o.candidate_value)>>,
   confidence |-> confidence,
   reason_summary |-> Take(reasons, 5), action |-> "confirm", observation_event |-> o,
   source |-> o.source, created_at |-> t]

\* crypto.randomUUID(): the n-th fresh id
randomUuid(n) == <<"uuid", n>>

\* pending_confirmations[promptId], NoValue when absent
PendingIndex(pend, promptId) ==
  IF \E i \in 1..Len(pend) : pend[i].prompt_id = promptId
  THEN CHOOSE i \in 1..Len(pend) : pend[i].prompt_id = promptId
  ELSE 0

RemoveAt(s, i) == SubSeq(s, 1, i - 1) \o SubSeq(s, i + 1, Len(s))

\* ------------------------------------------------------------------------
\* The engine's handlers as functions of the workspace w (the canonical
\* document and the sibling files) at clock value t
\* ------------------------------------------------------------------------
\* one "- <ts> | ..." line of the audit log: the parts the line is built from,
\* with NoId / "" / <<>> / NoValue / Absent for the parts a line does not carry
AuditLine(t, kind, eventId, promptId, entityId, path, value, confidence, source) ==
  [ts |-> t, kind |-> kind, event_id |-> eventId, prompt_id |-> promptId,
   entity_id |-> entityId, path |-> path, value |-> value, confidence |-> confidence,
   source |-> source]

logStateChange(w, line) == [w EXCEPT !.audit = Append(@, line)]

saveState(w, t) == [w EXCEPT !.last_consistency_check = t]

Result(status, promptId, eventId) ==
  [status |-> status, prompt_id |-> promptId, event_id |-> eventId]

ingestObservation(w, o, forceCommit, t) ==
  IF ~validateObservation(o)
  THEN [w |-> [w EXCEPT !.dlq = writeDlqEntry(@, "observation", o, randomUuid(w.nextUuid), t),
                        !.nextUuid = @ + 1],
        result |-> Result("validation_failed", NoId, NoId)]
  ELSE IF Includes(w.processed_event_ids, o.event_id)
  THEN [w |-> w, result |-> Result("duplicate", NoId, o.event_id)]
  ELSE
    LET confidence == computeConfidence(o, t)
        decisionMeta == resolveDecision(w.entities, o, confidence, forceCommit)
        w1 == [w EXCEPT !.processed_event_ids = pushProcessedEventId(@, o.event_id)]
    IN CASE decisionMeta.decision = "auto_commit" ->
              LET w2 == [w1 EXCEPT !.entities = applyCommittedObservation(@, o, confidence),
                                   !.learning_stats.auto_commits = @ + 1]
              IN [w |-> logStateChange(saveState(w2, t),
                          AuditLine(t, "decision=auto_commit", o.event_id, NoId, o.entity_id,
                                    <<o.domain>> \o fieldKeyFromObservation(o),
                                    stringifyValue(o.candidate_value), confidence,
                                    o.source.type)),
                  result |-> Result("committed", NoId, o.event_id)]
         [] decisionMeta.decision = "ask_user" ->
              LET prompt == createPendingPrompt(o, decisionMeta.reasons, confidence,
                                                randomUuid(w.nextUuid), t)
                  w2 == [w1 EXCEPT !.pending_confirmations = Append(@, prompt),
                                   !.nextUuid = @ + 1]
              IN [w |-> logStateChange(saveState(w2, t),
                          AuditLine(t, "decision=ask_user", o.event_id, prompt.prompt_id,
                                    o.entity_id, o.field, NoValue, confidence, "")),
                  result |-> Result("pending_confirmation", prompt.prompt_id, o.event_id)]
         [] OTHER ->
              LET w2 == [w1 EXCEPT !.tentative_observations =
                            pushTentativeObservation(@, o, confidence, decisionMeta.reasons, t)]
              IN [w |-> logStateChange(saveState(w2, t),
                          AuditLine(t, "decision=tentative_reject", o.event_id, NoId,
                                    o.entity_id, o.field, NoValue, confidence, "")),
                  result |-> Result("tentative", NoId, o.event_id)]

appendLearningEvent(w, event) ==
  [w EXCEPT !.learning_events =
              Append(@, [event EXCEPT !.learning_event_id = randomUuid(w.nextUuid)]),
            !.nextUuid = @ + 1]

\* mutation: a confirmation for another entity or domain drops the prompt
applyUserConfirmation_MismatchDropsPrompt(w, c, t) ==
  LET idx == PendingIndex(w.pending_confirmations, c.prompt_id) IN
  IF ~validateConfirmation(c) \/ idx = 0
  THEN [w |-> w, result |-> Result("not_found", c.prompt_id, NoId)]
  ELSE [w |-> [w EXCEPT !.pending_confirmations = RemoveAt(@, idx)],
        result |-> Result("mismatch", c.prompt_id, NoId)]

\* mutation: the confirmed observation keeps the event id of the observation
\* the prompt was created for
confirmedObservation_KeepsEventId(pendingObservation, c, eventId, confirmationTs) ==
  [pendingObservation EXCEPT
     !.event_ts = confirmationTs,
     !.intent = "assertive",
     !.candidate_value = IF c.action = "edit" THEN c.edited_value ELSE @,
     !.source = [type |-> "user_confirmation",
                 ref |-> [kind |-> "prompt", id |-> c.prompt_id]]]

\* the observation a confirm or an edit commits: the pending observation under
\* a fresh event id, with the user as its source
confirmedObservation(pendingObservation, c, eventId, confirmationTs) ==
  [pendingObservation EXCEPT
     !.event_id = eventId,
     !.event_ts = confirmationTs,
     !.intent = "assertive",
     !.candidate_value = IF c.action = "edit" THEN c.edited_value ELSE @,
     !.source = [type |-> "user_confirmation",
                 ref |-> [kind |-> "prompt", id |-> c.prompt_id]]]

applyUserConfirmation(w, c, t) ==
  IF ~validateConfirmation(c)
  THEN [w |-> [w EXCEPT !.dlq = writeDlqEntry(@, "confirmation", c, randomUuid(w.nextUuid), t),
                        !.nextUuid = @ + 1],
        result |-> Result("validation_failed", NoId, NoId)]
  ELSE
    LET idx == PendingIndex(w.pending_confirmations, c.prompt_id) IN
    IF idx = 0
    THEN [w |-> w, result |-> Result("not_found", c.prompt_id, NoId)]
    ELSE
      LET pending == w.pending_confirmations[idx] IN
      IF pending.entity_id # c.entity_id \/ pending.domain # c.domain
      THEN [w |-> w, result |-> Result("mismatch", c.prompt_id, NoId)]
      ELSE
        LET confirmationTs == IF c.ts = NoTs THEN t ELSE c.ts
            pendingObservation == pending.observation_event
            learningEventBase ==
              [learning_event_id |-> NoId, ts |-> confirmationTs,
               entity_id |-> pending.entity_id, domain |-> pending.domain,
               field |-> pendingObservation.field, decision |-> "ask_user",
               action |-> c.action,
               outcome |-> IF c.action = "confirm" THEN "accepted" ELSE "corrected",
               confidence |-> pending.confidence, intent |-> pendingObservation.intent,
               source_type |-> pendingObservation.source.type,
               source_ref |-> pendingObservation.source.ref,
               prompt_id |-> pending.prompt_id]
            w1 == [w EXCEPT !.learning_stats.ask_user_confirmations = @ + 1,
                            !.pending_confirmations = RemoveAt(@, idx)]
        IN
        IF c.action = "reject"
        THEN
          LET w2 == saveState([w1 EXCEPT !.learning_stats.user_rejects = @ + 1], t)
              w3 == logStateChange(w2,
                      AuditLine(t, "action=reject", NoId, c.prompt_id, "", <<>>, NoValue,
                                Absent, ""))
          IN [w |-> appendLearningEvent(w3, learningEventBase),
              result |-> Result("rejected", c.prompt_id, NoId)]
        ELSE
          LET committedObservation ==
                confirmedObservation(pendingObservation, c, randomUuid(w.nextUuid),
                                     confirmationTs)
              w2 == [w1 EXCEPT !.nextUuid = @ + 1]
          IN
          IF ~validateObservation(committedObservation)
          THEN [w |-> saveState(
                        [w2 EXCEPT !.dlq = writeDlqEntry(@, "observation", committedObservation,
                                                         randomUuid(w2.nextUuid), t),
                                   !.nextUuid = @ + 1], t),
                result |-> Result("validation_failed", c.prompt_id, NoId)]
          ELSE
            LET confidence == computeConfidence(committedObservation, t)
                w3 == [w2 EXCEPT
                         !.entities = applyCommittedObservation(@, committedObservation, confidence),
                         !.learning_stats.user_edits = IF c.action = "edit" THEN @ + 1 ELSE @,
                         !.learning_stats.user_confirms = IF c.action = "edit" THEN @ ELSE @ + 1]
                w4 == logStateChange(saveState(w3, t),
                        AuditLine(t, "action=" \o c.action, NoId, c.prompt_id,
                                  committedObservation.entity_id,
                                  <<committedObservation.domain>>
                                    \o fieldKeyFromObservation(committedObservation),
                                  stringifyValue(committedObservation.candidate_value),
                                  Absent, ""))
            IN [w |-> appendLearningEvent(w4, learningEventBase),
                result |-> Result("committed", c.prompt_id, committedObservation.event_id)]

\* ------------------------------------------------------------------------
\* Signal adapter
\* ------------------------------------------------------------------------
mapSignalSourceType(sourceKind, sourceMode) ==
  CASE sourceKind = "calendar" /\ sourceMode = "webhook" -> "calendar_webhook"
    [] sourceKind = "calendar" /\ sourceMode = "poll" -> "calendar_poll"
    [] sourceKind = "email" /\ sourceMode = "webhook" -> "email_webhook"
    [] OTHER -> "email_poll"

\* md5-derived uuid of the text: one id per distinct text
deterministicUuidFromText(text) == <<"md5">> \o text

NoRef == ""

SignalItemObservation(signal, idx) ==
  LET item == signal.items[idx]
      stableRef == IF item.ref # NoRef THEN <<"ref", item.ref>>
                   ELSE <<"field", item.field, idx - 1>>
  IN [event_id |-> deterministicUuidFromText(
                     <<signal.source.kind, signal.source.mode, signal.entity_id,
                       stableRef, item.value>>),
      event_ts |-> signal.event_ts,
      domain |-> item.domain,
      entity_id |-> signal.entity_id,
      field |-> item.field,
      candidate_value |-> item.value,
      intent |-> IF item.intent = NoValue THEN "assertive" ELSE item.intent,
      source |-> [type |-> mapSignalSourceType(signal.source.kind, signal.source.mode),
                  ref |-> [kind |-> signal.source.ref, id |-> <<"item", idx>>]],
      corroborators |-> item.corroborators]

STATUS_COUNTERS == {"committed", "pending_confirmation", "tentative", "duplicate",
                    "validation_failed"}

\* signal.items.forEach: the workspace and the counters after the first n items
RECURSIVE IngestSignalItems(_, _, _, _, _)
IngestSignalItems(w, signal, n, forceCommit, t) ==
  IF n = 0
  THEN [w |-> w, summary |-> [s \in STATUS_COUNTERS |-> 0]]
  ELSE LET before == IngestSignalItems(w, signal, n - 1, forceCommit, t)
           step == ingestObservation(before.w, SignalItemObservation(signal, n), forceCommit, t)
       IN [w |-> step.w,
           summary |-> IF step.result.status \in STATUS_COUNTERS
                       THEN [before.summary EXCEPT ![step.result.status] = @ + 1]
                       ELSE before.summary]

ingestSignalEvent(w, signal, forceCommit, t) ==
  IF ~validateSignal(signal)
  THEN [w |-> [w EXCEPT !.dlq = writeDlqEntry(@, "signal", signal, randomUuid(w.nextUuid), t),
                        !.nextUuid = @ + 1],
        result |-> Result("validation_failed", NoId, NoId),
        summary |-> [s \in STATUS_COUNTERS |-> 0]]
  ELSE LET done == IngestSignalItems(w, signal, Len(signal.items), forceCommit, t)
       IN [w |-> done.w, result |-> Result("ok", NoId, NoId), summary |-> done.summary]

\* ------------------------------------------------------------------------
\* DLQ retry
\* ------------------------------------------------------------------------
DLQ_DEFAULT_MAX_RETRIES == Len(DLQ_RETRY_SCHEDULE_MS) + 1
DEFAULT_DLQ_LIMIT == 25

MsPerHour == 60 * 60 * 1000

\* Date.parse(entry.next_retry_ts) <= now
DlqDue(entry, t) ==
  \/ entry.next_retry_ts = NoRetryTs
  \/ entry.next_retry_ts.base * MsPerHour + entry.next_retry_ts.wait_ms <= t * MsPerHour

retryDlqPayload(w, entry, forceCommit, t) ==
  CASE entry.schema_name = "observation" ->
         LET r == ingestObservation(w, entry.payload, forceCommit, t)
         IN [w |-> r.w, result |-> r.result]
    [] entry.schema_name = "confirmation" ->
         LET r == applyUserConfirmation(w, entry.payload, t)
         IN [w |-> r.w, result |-> r.result]
    [] entry.schema_name = "signal" ->
         LET r == ingestSignalEvent(w, entry.payload, forceCommit, t)
         IN [w |-> r.w, result |-> r.result]
    [] OTHER -> [w |-> w, result |-> Result("unsupported_schema", NoId, NoId)]

isDlqResolvedResult(schemaName, resultStatus) ==
  CASE schemaName = "observation" ->
         resultStatus \in {"committed", "pending_confirmation", "tentative", "duplicate"}
    [] schemaName = "confirmation" -> resultStatus \in {"committed", "rejected"}
    [] schemaName = "signal" -> resultStatus = "ok"
    [] OTHER -> FALSE

\* mutation: not_found is retried like a validation failure
isDlqPermanentFailure_NotFoundRetried(resultStatus) ==
  resultStatus \in {"unsupported_schema", "mismatch"}

isDlqPermanentFailure(resultStatus) ==
  resultStatus \in {"unsupported_schema", "not_found", "mismatch"}

\* candidates.sort by first_seen_ts (stable), as indices into entries
RECURSIVE SortByFirstSeen(_, _, _)
SortByFirstSeen(entries, eligible, n) ==
  IF n = 0 THEN <<>>
  ELSE LET Insert(sorted) ==
             LET after == {i \in 1..Len(sorted) :
                             entries[sorted[i]].first_seen_ts > entries[n].first_seen_ts}
                 at == IF after = {} THEN Len(sorted) + 1
                       ELSE CHOOSE i \in after : \A j \in after : i <= j
             IN IF n \in eligible
                THEN SubSeq(sorted, 1, at - 1) \o <<n>> \o SubSeq(sorted, at, Len(sorted))
                ELSE sorted
       IN CHOOSE result \in
            {Insert(sorted) : sorted \in {SortByFirstSeen(entries, eligible, n - 1)}} : TRUE

\* the final status of a retried entry and the update line that records it
DlqOutcome(entry, resultStatus, maxRetries, t) ==
  LET retryCount == Max(0, entry.retry_count) + 1 IN
  IF isDlqResolvedResult(entry.schema_name, resultStatus)
  THEN DlqLine("update", entry.dlq_id, entry.schema_name, NoPayload, NoTs, retryCount,
               NoRetryTs, "resolved", t, resultStatus, t)
  ELSE IF isDlqPermanentFailure(resultStatus) \/ retryCount >= maxRetries
  THEN DlqLine("update", entry.dlq_id, entry.schema_name, NoPayload, NoTs, retryCount,
               NoRetryTs, "failed_permanent", t, resultStatus, NoTs)
  ELSE DlqLine("update", entry.dlq_id, entry.schema_name, NoPayload, NoTs, retryCount,
               computeDlqNextRetryTs(retryCount, t), "pending_retry", t, resultStatus, NoTs)

\* for (const entry of candidates): the workspace and summary.items after the
\* first n candidates
RECURSIVE RetryCandidates(_, _, _, _, _, _, _)
RetryCandidates(w, entries, candidates, n, forceCommit, maxRetries, t) ==
  IF n = 0 THEN [w |-> w, items |-> <<>>]
  ELSE LET entry == entries[candidates[n]]
           Record(before, r) ==
             LET update == DlqOutcome(entry, r.result.status, maxRetries, t)
             IN [w |-> [r.w EXCEPT !.dlq = appendDlqUpdate(@, entry, update)],
                 items |-> Append(before.items,
                                  [dlq_id |-> entry.dlq_id, schema_name |-> entry.schema_name,
                                   result_status |-> r.result.status,
                                   retry_count |-> update.retry_count,
                                   final_status |-> update.status])]
       IN CHOOSE after \in
            UNION { { Record(before, r) :
                        r \in {retryDlqPayload(before.w, entry, forceCommit, t)} } :
                    before \in {RetryCandidates(w, entries, candidates, n - 1, forceCommit,
                                                maxRetries, t)} } : TRUE

getDlqSummary(lines) ==
  LET Count(entries) ==
        LET count(status) == Cardinality({i \in 1..Len(entries) : entries[i].status = status})
        IN [total |-> Len(entries), pending_retry |-> count("pending_retry"),
            resolved |-> count("resolved"), failed_permanent |-> count("failed_permanent")]
  IN CHOOSE summary \in {Count(entries) : entries \in {loadDlqState(lines)}} : TRUE

retryDlqEntries(w, options, t) ==
  LET limit == Max(1, IF options.limit \in {Absent, 0} THEN DEFAULT_DLQ_LIMIT
                      ELSE options.limit)
      maxRetries == Max(1, IF options.max_retries \in {Absent, 0}
                           THEN DLQ_DEFAULT_MAX_RETRIES ELSE options.max_retries)
      pendingRetry(entries) == {i \in 1..Len(entries) : entries[i].status = "pending_retry"}
      eligible(entries) ==
        {i \in pendingRetry(entries) :
           /\ entries[i].line = "entry" /\ entries[i].payload # JsonNull
           /\ entries[i].schema_name # ""
           /\ options.include_not_due \/ DlqDue(entries[i], t)}
      Summary(entries, candidates, done) ==
        LET final(status) == Cardinality({i \in 1..Len(done.items) :
                                            done.items[i].final_status = status})
        IN [w |-> done.w,
            result |-> [status |-> "ok", selected |-> Len(candidates),
                        resolved |-> final("resolved"),
                        pending_retry |-> final("pending_retry"),
                        failed_permanent |-> final("failed_permanent"),
                        skipped |-> Cardinality(pendingRetry(entries)) - Len(candidates),
                        items |-> done.items, dlq |-> getDlqSummary(done.w.dlq)]]
      Run(entries, candidates) ==
        { Summary(entries, candidates, done) :
            done \in {RetryCandidates(w, entries, candidates, Len(candidates),
                                      options.force_commit, maxRetries, t)} }
      Select(entries) ==
        UNION { Run(entries, candidates) :
                  candidates \in {Take(SortByFirstSeen(entries, eligible(entries),
                                                       Len(entries)), limit)} }
  IN CHOOSE summary \in UNION { Select(entries) : entries \in {loadDlqState(w.dlq)} } : TRUE

\* ------------------------------------------------------------------------
\* Review-queue promotion
\* ------------------------------------------------------------------------
DEFAULT_REVIEW_LIMIT == 5
DEFAULT_MAX_PENDING == 10

tentativeToObservation(tentative) ==
  [event_id |-> tentative.event_id, event_ts |-> tentative.event_ts,
   domain |-> tentative.domain, entity_id |-> tentative.entity_id,
   field |-> tentative.field, candidate_value |-> tentative.candidate_value,
   intent |-> tentative.intent, source |-> tentative.source,
   corroborators |-> tentative.corroborators]

\* mutation: the candidates are sorted by observed_at only
PromoteBefore_OldestFirst(a, b) == a.observed_at < b.observed_at

\* the comparator of the candidates' sort: a is placed before b
PromoteBefore(a, b) ==
  \/ a.confidence > b.confidence
  \/ a.confidence = b.confidence /\ a.observed_at < b.observed_at

\* Array.prototype.sort is stable: x goes before the first element it precedes
InsertSorted(tents, sorted, x) ==
  LET firstAfter == IF \E i \in 1..Len(sorted) : PromoteBefore(tents[x], tents[sorted[i]])
                    THEN CHOOSE i \in 1..Len(sorted) :
                           /\ PromoteBefore(tents[x], tents[sorted[i]])
                           /\ \A j \in 1..(i - 1) : ~PromoteBefore(tents[x], tents[sorted[j]])
                    ELSE Len(sorted) + 1
  IN SubSeq(sorted, 1, firstAfter - 1) \o <<x>> \o SubSeq(sorted, firstAfter, Len(sorted))

\* indices of the first n tentatives that pass the filters, sorted
RECURSIVE SortedCandidates(_, _, _)
SortedCandidates(tents, eligible, n) ==
  IF n = 0 THEN <<>>
  ELSE LET rest == SortedCandidates(tents, eligible, n - 1)
       IN IF n \in eligible THEN InsertSorted(tents, rest, n) ELSE rest

\* for (const item of candidates): prompts, promoted_at marks and audit lines
RECURSIVE PromoteCandidates(_, _, _, _)
PromoteCandidates(w, candidates, n, t) ==
  IF n = 0 THEN w
  ELSE LET w0 == PromoteCandidates(w, candidates, n - 1, t)
           i == candidates[n]
           item == w0.tentative_observations[i]
           observation == tentativeToObservation(item)
           reasons == <<"promoted_from_tentative_review_queue">> \o item.reasons
           prompt == createPendingPrompt(observation, reasons, item.confidence,
                                         randomUuid(w0.nextUuid), t)
           w1 == [w0 EXCEPT !.pending_confirmations = Append(@, prompt),
                            !.nextUuid = @ + 1,
                            !.tentative_observations[i].promoted_at = t,
                            !.tentative_observations[i].prompt_id = prompt.prompt_id]
       IN logStateChange(w1, AuditLine(t, "review_queue_promoted", observation.event_id,
                                       prompt.prompt_id, observation.entity_id,
                                       observation.field, NoValue, item.confidence, ""))

\* mutation: the cap is compared with > instead of >=
remainingSlots_OffByOne(maxPending, currentPendingCount) ==
  Max(0, maxPending - currentPendingCount + 1)

remainingSlots(maxPending, currentPendingCount) ==
  Max(0, maxPending - currentPendingCount)

promoteReviewQueue(w, options, t) ==
  LET w0 == [w EXCEPT !.runtime.last_review_queue_at = t]
      minConfidence == IF options.min_confidence = Absent THEN DEFAULT_MIN_CONFIDENCE
                       ELSE options.min_confidence
      limit == Max(1, IF options.limit \in {Absent, 0} THEN DEFAULT_REVIEW_LIMIT
                      ELSE options.limit)
      maxPending == Max(1, IF options.max_pending \in {Absent, 0} THEN DEFAULT_MAX_PENDING
                           ELSE options.max_pending)
      entityId == options.entity_id
      domain == options.domain
      pend == w0.pending_confirmations
      tents == w0.tentative_observations
      pendingOriginIds == {pend[i].observation_event.event_id : i \in 1..Len(pend)}
      currentPendingCount ==
        Cardinality({i \in 1..Len(pend) :
                       /\ entityId = "" \/ pend[i].entity_id = entityId
                       /\ domain = "" \/ pend[i].domain = domain})
      slots == remainingSlots(maxPending, currentPendingCount)
      eligible == {i \in 1..Len(tents) :
                     /\ tents[i].promoted_at = NoTs
                     /\ entityId = "" \/ tents[i].entity_id = entityId
                     /\ domain = "" \/ tents[i].domain = domain
                     /\ tents[i].confidence >= minConfidence
                     /\ tents[i].event_id \notin pendingOriginIds}
      candidates == Take(SortedCandidates(tents, eligible, Len(tents)),
                         Min(limit, slots))
  IN IF slots = 0
     THEN [w |-> saveState(w0, t),
           result |-> [status |-> "ok", promoted_count |-> 0,
                       pending_count |-> currentPendingCount, max_pending |-> maxPending,
                       reason |-> "pending_limit_reached", promoted |-> <<>>]]
     ELSE [w |-> saveState(PromoteCandidates(w0, candidates, Len(candidates), t), t),
           result |-> [status |-> "ok", promoted_count |-> Len(candidates),
                       pending_count |-> currentPendingCount + Len(candidates),
                       max_pending |-> maxPending, reason |-> NoValue,
                       promoted |-> candidates]]

\* ------------------------------------------------------------------------
\* HEARTBEAT.md projection
\*
\* A text is a sequence of tokens: NL is "\n", every other token is the
\* content of one whole line.  T(s) is a line the engine writes literally,
\* Human(s) a line a person wrote; record, pending and audit lines carry the
\* parts they are formatted from.  trimEnd strips trailing NL tokens.
\* ------------------------------------------------------------------------
NL == <<"nl">>
T(s) == <<"text", s>>
Human(s) == <<"human", s>>

\* a file that does not exist
NoFile == <<<<"enoent">>>>

readTextIfExists(file, fallback) == IF file = NoFile THEN fallback ELSE file

\* crypto sha256 as a collision-free tag of the hashed text
sha256(text) == <<"sha256", text>>

NoHash == <<"sha256-none">>

canonicalHeading == "## Canonical State (Machine Managed)"
changesHeading == "## State Change Log (Machine Managed)"
canonicalZoneId == "canonical_state"
changesZoneId == "state_change_log"

RECURSIVE trimEnd(_)
trimEnd(text) ==
  IF text # <<>> /\ text[Len(text)] = NL THEN trimEnd(SubSeq(text, 1, Len(text) - 1)) ELSE text

\* lines.join("\n"): a line is a sequence of zero tokens ("") or one
RECURSIVE JoinLines(_)
JoinLines(lines) ==
  IF Len(lines) = 0 THEN <<>>
  ELSE IF Len(lines) = 1 THEN lines[1]
  ELSE lines[1] \o <<NL>> \o JoinLines(Tail(lines))

RECURSIVE Flatten(_)
Flatten(seqs) == IF Len(seqs) = 0 THEN <<>> ELSE seqs[1] \o Flatten(Tail(seqs))

\* Array.prototype.sort() of a set of keys: the entity ids and domains, and the
\* field keys, of the model in code-unit order
NAME_ORDER ==
  <<"family", "financial", "general", "profile", "project", "school", "team:core", "travel",
    "user:primary">>

FIELD_KEY_ORDER == << <<"departure">>, <<"status">> >>

SortedKeys(S, order) == SelectSeq(order, LAMBDA x : x \in S)

toStableStateEntries(ents, entityFilter) ==
  LET entityIds == SelectSeq(SortedKeys(DOMAIN ents, NAME_ORDER),
                             LAMBDA e : entityFilter = "" \/ entityFilter = e)
      OfDomain(e, d) ==
        LET fields == SortedKeys(DOMAIN ents[e][d], FIELD_KEY_ORDER)
        IN [k \in 1..Len(fields) |->
              [entity_id |-> e, domain |-> d, field |-> fields[k],
               record |-> ents[e][d][fields[k]]]]
      OfEntity(e) ==
        LET ds == SortedKeys(DOMAIN ents[e], NAME_ORDER)
        IN Flatten([j \in 1..Len(ds) |-> OfDomain(e, ds[j])])
  IN Flatten([i \in 1..Len(entityIds) |-> OfEntity(entityIds[i])])

\* pending.sort by created_at (stable): x goes after the elements not later than it
RECURSIVE SortByCreatedAt(_)
SortByCreatedAt(pend) ==
  IF Len(pend) = 0 THEN <<>>
  ELSE LET sorted == SortByCreatedAt(SubSeq(pend, 1, Len(pend) - 1))
           x == pend[Len(pend)]
           after == {i \in 1..Len(sorted) : sorted[i].created_at > x.created_at}
           at == IF after = {} THEN Len(sorted) + 1
                 ELSE CHOOSE i \in after : \A j \in after : i <= j
       IN SubSeq(sorted, 1, at - 1) \o <<x>> \o SubSeq(sorted, at, Len(sorted))

buildCanonicalStateSection(w, entityFilter) ==
  LET entries == toStableStateEntries(w.entities, entityFilter)
      pending == SortByCreatedAt(w.pending_confirmations)
      lines ==
        << <<T("Machine-managed section. Edit state via ingestion/confirmation flows.")>>,
           <<>>,
           <<T("### Active Canonical State")>> >>
        \o (IF Len(entries) = 0 THEN << <<T("- No committed state yet.")>> >>
            ELSE [i \in 1..Len(entries) |->
                    << <<"record", entries[i].entity_id, entries[i].domain, entries[i].field,
                         stringifyValue(entries[i].record.value),
                         entries[i].record.confidence, entries[i].record.source>> >>])
        \o << <<>>, <<T("### Pending Confirmations")>> >>
        \o (IF Len(pending) = 0 THEN << <<T("- None")>> >>
            ELSE [i \in 1..Len(pending) |->
                    << <<"pending", pending[i].prompt_id, pending[i].entity_id,
                         pending[i].proposed_change, pending[i].confidence>> >>])
  IN JoinLines(lines) \o <<NL>>

buildStateChangeLogSection(w) ==
  LET lines == Last(w.audit, CHANGE_LOG_TAIL)
      out == << <<T("Most recent state decisions:")>>, <<>> >>
             \o (IF Len(lines) = 0 THEN << <<T("- No state changes yet.")>> >>
                 ELSE [i \in 1..Len(lines) |-> << <<"audit", lines[i]>> >>])
  IN JoinLines(out) \o <<NL>>

zoneMarkers(zoneId) ==
  [start |-> T("<!-- STATE:BEGIN zone_id=" \o zoneId \o " schema=v1 -->"),
   end |-> T("<!-- STATE:END zone_id=" \o zoneId \o " -->")]

buildSectionBlock(heading, zoneId, body) ==
  LET markers == zoneMarkers(zoneId)
      normalizedBody == trimEnd(body)
  IN JoinLines(<< <<T(heading)>>, <<>>, <<markers.start>>, normalizedBody, <<markers.end>>,
                  <<>> >>)

\* the legacy pattern (^<heading>\n\n)([\s\S]*?)(?=\n##\s|$) with the m flag: the
\* heading on a line of its own followed by an empty line; the lazy group runs
\* to the end of the line that follows.  Index of the first match, 0 if none.
LegacyIndex(text, heading) ==
  LET matches == {i \in 1..Len(text) :
                    /\ text[i] = T(heading)
                    /\ i = 1 \/ text[i - 1] = NL
                    /\ i + 2 <= Len(text)
                    /\ text[i + 1] = NL
                    /\ text[i + 2] = NL}
  IN IF matches = {} THEN 0 ELSE CHOOSE i \in matches : \A j \in matches : i <= j

\* what the lazy group captures for the match at i
RECURSIVE LineFrom(_, _)
LineFrom(text, p) ==
  IF p > Len(text) \/ text[p] = NL THEN <<>> ELSE <<text[p]>> \o LineFrom(text, p + 1)

LegacyBody(text, i) == LineFrom(text, i + 3)

\* .replace(/^\n/, "").replace(/\n$/, "")
StripOneNewlineEachEnd(text) ==
  LET noLead == IF text # <<>> /\ text[1] = NL THEN Tail(text) ELSE text
  IN IF noLead # <<>> /\ noLead[Len(noLead)] = NL
     THEN SubSeq(noLead, 1, Len(noLead) - 1) ELSE noLead

captureSectionBody(text, heading, zoneId) ==
  LET markers == zoneMarkers(zoneId)
      startIdx == IndexOf(text, markers.start)
      endIdx == IndexOf(text, markers.end)
      legacy == LegacyIndex(text, heading)
  IN IF startIdx # 0 /\ endIdx # 0 /\ endIdx > startIdx
     THEN [exists |-> TRUE,
           body |-> StripOneNewlineEachEnd(SubSeq(text, startIdx + 1, endIdx - 1))]
     ELSE IF legacy = 0 THEN [exists |-> FALSE, body |-> <<>>]
     ELSE [exists |-> TRUE, body |-> trimEnd(LegacyBody(text, legacy))]

\* .replace(/\n{3,}/g, "\n\n")
RECURSIVE CollapseNewlines(_)
CollapseNewlines(text) ==
  IF Len(text) < 3 THEN text
  ELSE IF text[1] = NL /\ text[2] = NL /\ text[3] = NL THEN CollapseNewlines(Tail(text))
  ELSE <<text[1]>> \o CollapseNewlines(Tail(text))

RECURSIVE removeAllHeadingSections(_, _)
removeAllHeadingSections(text, heading) ==
  LET i == LegacyIndex(text, heading)
  IN IF i = 0 THEN trimEnd(text)
     ELSE removeAllHeadingSections(
            CollapseNewlines(SubSeq(text, 1, i - 1)
                             \o SubSeq(text, i + 3 + Len(LegacyBody(text, i)), Len(text))),
            heading)

\* the two emoji of the legacy headings are written as their code points
legacyAnchors ==
  << T("## U+1F9E0 Canonical State"), T("## U+1F9FE State Change Log"),
     T(canonicalHeading), T(changesHeading),
     T("Machine-managed section. Edit state via ingestion/confirmation flows."),
     T("Most recent state decisions:"),
     zoneMarkers(canonicalZoneId).start, zoneMarkers(canonicalZoneId).end,
     zoneMarkers(changesZoneId).start, zoneMarkers(changesZoneId).end >>

DriftLine(t, heading) ==
  AuditLine(t, "drift_detected", NoId, NoId, "", <<heading>>, NoValue, Absent, "")

\* the default text of a HEARTBEAT.md that does not exist yet
DefaultHeartbeat == <<T("# HEARTBEAT.md"), NL>>

renderHeartbeatProjection(w, file, options, t) ==
  LET entityFilter == options.entity_id
      heartbeatText == readTextIfExists(file, DefaultHeartbeat)
      existingCanonical == captureSectionBody(heartbeatText, canonicalHeading, canonicalZoneId).body
      existingChanges == captureSectionBody(heartbeatText, changesHeading, changesZoneId).body
      nextCanonical == buildCanonicalStateSection(w, entityFilter)
      nextChanges == buildStateChangeLogSection(w)
      canonicalHash == sha256(nextCanonical)
      changesHash == sha256(nextChanges)
      existingCanonicalHash == sha256(existingCanonical)
      existingChangesHash == sha256(existingChanges)
      oldCanonicalHash == w.runtime.projection_hashes[canonicalHeading]
      oldChangesHash == w.runtime.projection_hashes[changesHeading]
      w1 == IF /\ oldCanonicalHash # NoHash
               /\ existingCanonicalHash # oldCanonicalHash
               /\ existingCanonicalHash # canonicalHash
            THEN logStateChange(w, DriftLine(t, canonicalHeading)) ELSE w
      w2 == IF /\ oldChangesHash # NoHash
               /\ existingChangesHash # oldChangesHash
               /\ existingChangesHash # changesHash
            THEN logStateChange(w1, DriftLine(t, changesHeading)) ELSE w1
      anchorPositions == {IndexOf(heartbeatText, legacyAnchors[a]) : a \in 1..Len(legacyAnchors)}
                           \ {0}
      firstAnchor == CHOOSE i \in anchorPositions : \A j \in anchorPositions : i <= j
      cut == IF anchorPositions # {} THEN trimEnd(SubSeq(heartbeatText, 1, firstAnchor - 1))
             ELSE heartbeatText
      cleaned == removeAllHeadingSections(removeAllHeadingSections(cut, canonicalHeading),
                                          changesHeading)
      canonicalBlock == buildSectionBlock(canonicalHeading, canonicalZoneId, nextCanonical)
      changesBlock == buildSectionBlock(changesHeading, changesZoneId, nextChanges)
      w3 == [w2 EXCEPT !.runtime.projection_hashes[canonicalHeading] = canonicalHash,
                       !.runtime.projection_hashes[changesHeading] = changesHash]
  IN [w |-> saveState(w3, t),
      heartbeat |-> cleaned \o <<NL, NL>> \o canonicalBlock \o <<NL>> \o changesBlock \o <<NL>>,
      result |-> Result("ok", NoId, NoId)]

\* ------------------------------------------------------------------------
\* Adaptive threshold learner.  Thresholds, rates and steps are in
\* thousandths; the proposal is computed in millionths and rounded by round3.
\* ------------------------------------------------------------------------
\* the bounds with an ask ceiling above 0.80
THRESHOLD_BOUNDS_WideAsk ==
  [ask_min |-> 550, ask_max |-> 900, auto_min |-> 800, auto_max |-> 990, min_gap |-> 80]

THRESHOLD_BOUNDS ==
  [ask_min |-> 550, ask_max |-> 800, auto_min |-> 800, auto_max |-> 990, min_gap |-> 80]

ADAPTIVE_DEFAULTS ==
  [mode |-> "off", min_samples |-> 12, lookback_days |-> 14, max_daily_step |-> 20,
   target_correction_rate |-> 80, low_confirmation_rate |-> 550,
   high_confirmation_rate |-> 850, min_interval_hours |-> 20]

createDefaultAdaptiveRuntime ==
  [mode |-> ADAPTIVE_DEFAULTS.mode, min_samples |-> ADAPTIVE_DEFAULTS.min_samples,
   lookback_days |-> ADAPTIVE_DEFAULTS.lookback_days,
   max_daily_step |-> ADAPTIVE_DEFAULTS.max_daily_step,
   target_correction_rate |-> ADAPTIVE_DEFAULTS.target_correction_rate,
   low_confirmation_rate |-> ADAPTIVE_DEFAULTS.low_confirmation_rate,
   high_confirmation_rate |-> ADAPTIVE_DEFAULTS.high_confirmation_rate,
   min_interval_hours |-> ADAPTIVE_DEFAULTS.min_interval_hours,
   last_run_at |-> NoTs, last_applied_at |-> NoTs]

\* the clamps of the fields the options can set
ensureAdaptiveRuntime(merged) ==
  [merged EXCEPT
     !.mode = IF @ \in {"shadow", "apply"} THEN @ ELSE "off",
     !.min_samples = Max(4, @),
     !.max_daily_step = clamp(@, 5, 200),
     !.min_interval_hours = clamp(@, 1, 72)]

\* options.x ?? runtime.x (the environment sets none of them)
resolveAdaptiveLearningConfig(runtimeAdaptive, options) ==
  ensureAdaptiveRuntime(
    [runtimeAdaptive EXCEPT
       !.mode = IF options.mode = "" THEN @ ELSE options.mode,
       !.min_samples = IF options.min_samples = Absent THEN @ ELSE options.min_samples,
       !.max_daily_step = IF options.max_daily_step = Absent THEN @
                          ELSE options.max_daily_step,
       !.min_interval_hours = IF options.min_interval_hours = Absent THEN @
                              ELSE options.min_interval_hours])

\* Math.round(value * 1000) / 1000: millionths to thousandths
round3(value) == (value + 500) \div 1000

\* [...values].sort((a, b) => a - b)
RECURSIVE SortedNumbers(_)
SortedNumbers(values) ==
  IF Len(values) = 0 THEN <<>>
  ELSE LET sorted == SortedNumbers(SubSeq(values, 1, Len(values) - 1))
           x == values[Len(values)]
           smaller == Cardinality({i \in 1..Len(sorted) : sorted[i] <= x})
       IN SubSeq(sorted, 1, smaller) \o <<x>> \o SubSeq(sorted, smaller + 1, Len(sorted))

\* p in hundredths, values in thousandths, the result in millionths
percentile(values, p) ==
  IF Len(values) = 0 THEN 0
  ELSE LET sorted == SortedNumbers(values)
           idx == clamp(p, 0, 100) * (Len(sorted) - 1)
           lo == idx \div 100
           weight == idx % 100
       IN IF weight = 0 THEN sorted[lo + 1] * 1000
          ELSE sorted[lo + 1] * 10 * (100 - weight) + sorted[lo + 2] * 10 * weight

\* mutation: the threshold jumps to its candidate
moveToward_Jump(current, target, maxStep) == target

moveToward(current, target, maxStep) ==
  LET step == Max(0, maxStep) IN
  IF step = 0 THEN current
  ELSE IF target - current <= step /\ current - target <= step THEN target
  ELSE IF target > current THEN current + step ELSE current - step

computeAdaptiveDomainProposal(domainCfg, events, config) ==
  LET sampleCount == Len(events)
      confirmCount == Cardinality({i \in 1..Len(events) : events[i].action = "confirm"})
      corrections == SelectSeq(events, LAMBDA item : item.action \in {"reject", "edit"})
      correctionCount == Len(corrections)
      \* rates compared as fractions of sampleCount, thresholds in thousandths
      correctionAbove(rate) == sampleCount > 0 /\ correctionCount * 1000 > rate * sampleCount
      correctionBelowHalf(rate) ==
        sampleCount = 0 \/ correctionCount * 2000 < rate * sampleCount
      confirmationAtLeast(rate) == sampleCount > 0 /\ confirmCount * 1000 >= rate * sampleCount
      confirmationAbove(rate) == sampleCount > 0 /\ confirmCount * 1000 > rate * sampleCount
      currentAsk == domainCfg.ask_threshold * 1000
      currentAuto == domainCfg.auto_threshold * 1000
      step == config.max_daily_step * 1000
      gap == THRESHOLD_BOUNDS.min_gap * 1000
      askMin == THRESHOLD_BOUNDS.ask_min * 1000
      askMax == THRESHOLD_BOUNDS.ask_max * 1000
      autoMin == THRESHOLD_BOUNDS.auto_min * 1000
      autoMax == THRESHOLD_BOUNDS.auto_max * 1000
      auto1 == IF correctionAbove(config.target_correction_rate) THEN currentAuto + step
               ELSE IF /\ correctionBelowHalf(config.target_correction_rate)
                       /\ confirmationAtLeast(config.high_confirmation_rate)
                    THEN currentAuto - step \div 2
                    ELSE currentAuto
      correctionConfidences == [i \in 1..correctionCount |-> corrections[i].confidence]
      auto2 == IF correctionCount >= 3
               THEN Max(auto1, percentile(correctionConfidences, 75) + 10000)
               ELSE auto1
      candidateAuto == clamp(auto2, autoMin, autoMax)
      ask1 == IF ~confirmationAtLeast(config.low_confirmation_rate) THEN currentAsk + step
              ELSE IF confirmationAbove(config.high_confirmation_rate) THEN currentAsk - step
              ELSE currentAsk
      ask2 == clamp(Min(ask1, candidateAuto - gap), askMin, askMax)
      candidateAsk == IF ask2 > candidateAuto - gap THEN Max(askMin, candidateAuto - gap)
                      ELSE ask2
      nextAuto == clamp(moveToward(currentAuto, candidateAuto, step), autoMin, autoMax)
      ask3 == clamp(moveToward(currentAsk, candidateAsk, step), askMin, askMax)
      nextAsk == IF ask3 > nextAuto - gap THEN Max(askMin, nextAuto - gap) ELSE ask3
  IN [sample_count |-> sampleCount, confirm_count |-> confirmCount,
      correction_count |-> correctionCount,
      current_ask_threshold |-> round3(currentAsk),
      current_auto_threshold |-> round3(currentAuto),
      proposed_ask_threshold |-> round3(candidateAsk),
      proposed_auto_threshold |-> round3(candidateAuto),
      next_ask_threshold |-> round3(nextAsk), next_auto_threshold |-> round3(nextAuto),
      changed |-> \/ round3(nextAsk) # round3(currentAsk)
                  \/ round3(nextAuto) # round3(currentAuto)]

\* the events of the lookback window that carry a label
loadLearningEvents(events, lookbackDays, t) ==
  SelectSeq(events, LAMBDA event :
    /\ event.ts >= t - lookbackDays * 24
    /\ event.decision = "ask_user"
    /\ event.action \in {"confirm", "reject", "edit"})

\* for (const domain of VALID_DOMAINS): the workspace and the number of
\* domains updated / recommended after the first n domains of the order
RECURSIVE LearnDomains(_, _, _, _, _, _)
LearnDomains(w, order, n, labeledEvents, config, t) ==
  IF n = 0 THEN [w |-> w, domains_updated |-> 0, domains_recommended |-> 0]
  ELSE LET domain == order[n]
           domainEvents == SelectSeq(labeledEvents, LAMBDA event : event.domain = domain)
           Apply(before, proposal) ==
             IF Len(domainEvents) < config.min_samples \/ ~proposal.changed THEN before
             ELSE IF config.mode = "apply"
             THEN [before EXCEPT
                     !.w = logStateChange(
                             [@ EXCEPT
                                !.domains[domain].ask_threshold = proposal.next_ask_threshold,
                                !.domains[domain].auto_threshold = proposal.next_auto_threshold],
                             AuditLine(t, "adaptive_threshold_update", NoId, NoId, "", <<domain>>,
                                       ToString(<<proposal.current_ask_threshold,
                                                  proposal.next_ask_threshold,
                                                  proposal.current_auto_threshold,
                                                  proposal.next_auto_threshold>>),
                                       Absent, "")),
                     !.domains_updated = @ + 1]
             ELSE [before EXCEPT !.domains_recommended = @ + 1]
       IN CHOOSE after \in
            UNION { { Apply(before, proposal) :
                        proposal \in {computeAdaptiveDomainProposal(before.w.domains[domain],
                                                                    domainEvents, config)} } :
                    before \in {LearnDomains(w, order, n - 1, labeledEvents, config, t)} } : TRUE

\* mutation: the interval since the last run is never too short
intervalNotElapsed_Never(lastRunAt, minIntervalHours, t) == FALSE

\* Number.isFinite(lastRunMs) && Date.now() - lastRunMs < minIntervalMs
intervalNotElapsed(lastRunAt, minIntervalHours, t) ==
  lastRunAt # NoTs /\ t - lastRunAt < minIntervalHours

runAdaptiveThresholdLearning(w, options, t) ==
  LET config == resolveAdaptiveLearningConfig(w.runtime.adaptive_learning, options)
      order == <<"travel", "family", "project", "financial", "profile", "school", "general">>
  IN IF /\ ~options.force /\ config.mode # "off"
        /\ intervalNotElapsed(config.last_run_at, config.min_interval_hours, t)
     THEN [w |-> w, result |-> [status |-> "skipped", reason |-> "interval_not_elapsed",
                                domains_updated |-> 0, domains_recommended |-> 0]]
     ELSE IF config.mode = "off" /\ ~options.force
     THEN [w |-> w, result |-> [status |-> "skipped", reason |-> "mode_off",
                                domains_updated |-> 0, domains_recommended |-> 0]]
     ELSE LET labeledEvents == loadLearningEvents(w.learning_events, config.lookback_days, t)
              done == LearnDomains(w, order, Len(order), labeledEvents, config, t)
              applied == config.mode = "apply" /\ done.domains_updated > 0
              w1 == [done.w EXCEPT !.runtime.adaptive_learning =
                       [config EXCEPT !.last_run_at = t,
                                      !.last_applied_at = IF applied THEN t ELSE @]]
          IN [w |-> saveState(w1, t),
              result |-> [status |-> "ok", reason |-> "",
                          domains_updated |-> done.domains_updated,
                          domains_recommended |-> done.domains_recommended]]

\* ------------------------------------------------------------------------
\* Review worker: runtime state (scripts/state-telegram-review.js)
\* ------------------------------------------------------------------------
\* no active prompt
NoPrompt == <<"uuid", -1>>

\* session_cursor counts the user messages of the session file already read;
\* session_id, session_file and active_message_id are not modelled
defaultReviewRuntimeState ==
  [session_cursor |-> 0, active_prompt_id |-> NoPrompt,
   last_dispatched_at |-> NoTs, last_decision_at |-> NoTs]

\* ------------------------------------------------------------------------
\* Chat bridge (plugins/state-consistency-bridge/index.js).  A chat text is
\* a sequence of tokens; a token is a word or a string of characters
\* (a prompt reference).
\* ------------------------------------------------------------------------
MIN_REF_LENGTH == 8
MAX_REF_LENGTH == 36

HexDigits ==
  <<"0", "1", "2", "3", "4", "5", "6", "7", "8", "9", "a", "b", "c", "d", "e", "f">>

\* the text of the n-th prompt id: a first group of eight hex digits, a hyphen
\* and (for the four other groups of a UUID) one digit.  The ids n with
\* n % 4 in {1, 2} share their first group, and so do the others.
UuidText(id) ==
  IF id[2] < 0 THEN <<>>
  ELSE <<"a", "a", "a", "a", "a", "a", "a", IF id[2] % 4 \in {1, 2} THEN "a" ELSE "b",
         "-", HexDigits[(id[2] % 16) + 1]>>

Word(s) == [word |-> s, chars |-> <<>>]
RefToken(c) == [word |-> "", chars |-> c]

\* /^[0-9a-f-]{8,36}$/
IsRef(token) ==
  /\ Len(token.chars) >= MIN_REF_LENGTH
  /\ Len(token.chars) <= MAX_REF_LENGTH
  /\ \A i \in 1..Len(token.chars) : token.chars[i] \in Range(HexDigits) \cup {"-"}

StartsWith(text, prefix) ==
  /\ Len(prefix) <= Len(text)
  /\ SubSeq(text, 1, Len(prefix)) = prefix

\* the review state written without the prompt id
updateReviewState_KeepsActive(rv, nextPromptId, t) == [rv EXCEPT !.last_dispatched_at = t]

updateReviewState(rv, nextPromptId, t) ==
  [rv EXCEPT !.active_prompt_id = nextPromptId, !.last_dispatched_at = t]

sortPending(pend) == SortByCreatedAt(pend)

NoError == ""

\* the resolver without the ambiguity test: the first prefix match wins
resolvePromptId_FirstPrefixWins(pend, promptRef, activePromptId) ==
  LET prefixed == {i \in 1..Len(pend) : StartsWith(UuidText(pend[i].prompt_id), promptRef)}
  IN IF Len(pend) = 0
     THEN [promptId |-> NoPrompt, error |-> "No pending confirmations."]
     ELSE IF promptRef # <<>>
     THEN IF prefixed # {}
          THEN [promptId |-> pend[CHOOSE i \in prefixed : \A j \in prefixed : i <= j].prompt_id,
                error |-> NoError]
          ELSE [promptId |-> NoPrompt, error |-> "Prompt not found"]
     ELSE IF activePromptId # NoPrompt /\ PendingIndex(pend, activePromptId) # 0
     THEN [promptId |-> activePromptId, error |-> NoError]
     ELSE [promptId |-> sortPending(pend)[1].prompt_id, error |-> NoError]

\* promptRef is <<>> when no reference is given
resolvePromptId(pend, promptRef, activePromptId) ==
  LET prefixed == {i \in 1..Len(pend) : StartsWith(UuidText(pend[i].prompt_id), promptRef)}
      exact == {i \in 1..Len(pend) : UuidText(pend[i].prompt_id) = promptRef}
  IN IF Len(pend) = 0
     THEN [promptId |-> NoPrompt, error |-> "No pending confirmations."]
     ELSE IF promptRef # <<>>
     THEN IF exact # {}
          THEN [promptId |-> pend[CHOOSE i \in exact : TRUE].prompt_id, error |-> NoError]
          ELSE IF Cardinality(prefixed) = 1
          THEN [promptId |-> pend[CHOOSE i \in prefixed : TRUE].prompt_id, error |-> NoError]
          ELSE IF Cardinality(prefixed) > 1
          THEN [promptId |-> NoPrompt, error |-> "Prompt reference is ambiguous"]
          ELSE [promptId |-> NoPrompt, error |-> "Prompt not found"]
     ELSE IF activePromptId # NoPrompt /\ PendingIndex(pend, activePromptId) # 0
     THEN [promptId |-> activePromptId, error |-> NoError]
     ELSE [promptId |-> sortPending(pend)[1].prompt_id, error |-> NoError]

normalizeActionToken(raw) ==
  IF raw \in {"yes", "confirm"} THEN "confirm"
  ELSE IF raw \in {"no", "reject"} THEN "reject"
  ELSE IF raw = "edit" THEN "edit"
  ELSE ""

Parsed(action, promptRef, editedValue) ==
  [action |-> action, promptRef |-> promptRef, editedValue |-> editedValue]

\* the arguments of /state-confirm, token by token
parseControlArgs(args) ==
  LET decisionWords == {"yes", "no", "confirm", "reject"}
  IN IF Len(args) = 0 THEN Parsed("show", <<>>, NoValue)
     ELSE IF Len(args) = 1 /\ IsRef(args[1]) THEN Parsed("show", args[1].chars, NoValue)
     ELSE IF Len(args) = 2 /\ IsRef(args[1]) /\ args[2].word \in decisionWords
     THEN Parsed(normalizeActionToken(args[2].word), args[1].chars, NoValue)
     ELSE IF Len(args) = 2 /\ args[1].word \in decisionWords /\ IsRef(args[2])
     THEN Parsed(normalizeActionToken(args[1].word), args[2].chars, NoValue)
     ELSE IF Len(args) >= 3 /\ IsRef(args[1]) /\ args[2].word = "edit"
     THEN Parsed("edit", args[1].chars, args[3].word)
     ELSE IF Len(args) >= 3 /\ args[1].word = "edit" /\ IsRef(args[2])
     THEN Parsed("edit", args[2].chars, args[3].word)
     ELSE IF Len(args) = 1 /\ args[1].word \in decisionWords
     THEN Parsed(normalizeActionToken(args[1].word), <<>>, NoValue)
     ELSE Parsed("invalid", <<>>, NoValue)

\* "" when the text is no plain yes / no
parseNaturalConfirmationAction(text) ==
  IF Len(text) # 1 THEN ""
  ELSE IF text[1].word \in {"yes", "y", "yep", "yeah", "confirm", "confirmed", "correct", "true"}
  THEN "confirm"
  ELSE IF text[1].word \in {"no", "n", "nope", "nah", "reject", "rejected", "incorrect", "false"}
  THEN "reject"
  ELSE ""

\* 0 when nothing is pending
pickNextPendingForEntity(pend, entityId) ==
  LET sorted == sortPending(pend)
      own == {i \in 1..Len(sorted) : sorted[i].entity_id = entityId}
  IN IF Len(sorted) = 0 THEN NoPrompt
     ELSE IF own # {} THEN sorted[CHOOSE i \in own : \A j \in own : i <= j].prompt_id
     ELSE sorted[1].prompt_id

\* what a handler of the bridge answers: the kind of the reply, the prompt it
\* shows (with its buttons) and the prompt whose decision it acknowledges
Reply(kind, shown, about) == [kind |-> kind, shown |-> shown, about |-> about]

\* a message in the chat: who sent it, what it is, the prompt it shows and
\* the prompt whose decision it acknowledges
Sent(by, reply) ==
  [by |-> by, kind |-> reply.kind, shown |-> reply.shown, about |-> reply.about]

\* the first showing of a prompt: at counts the user messages the session
\* file held at that moment
Dispatch(shown, promptId, by, at) ==
  IF promptId = NoPrompt \/ \E d \in shown : d.prompt_id = promptId THEN shown
  ELSE shown \cup {[prompt_id |-> promptId, by |-> by, at |-> at]}

\* the decision on prompt promptId taken from the reply-th user message of
\* the session (0: from a command)
Decided(by, promptId, reply) == [by |-> by, prompt_id |-> promptId, reply |-> reply]

resolvePrompt(w, rv, promptRef) ==
  resolvePromptId(w.pending_confirmations, promptRef, rv.active_prompt_id)

\* b is the bridge's view: the workspace w, the review-state file and
\* HEARTBEAT.md
Bridge(w, rv, file, reply, decided) ==
  [w |-> w, review |-> rv, heartbeat |-> file, reply |-> reply, decided |-> decided]

showPendingPrompt(w, rv, file, promptRef, t) ==
  LET resolved == resolvePrompt(w, rv, promptRef)
  IN IF resolved.error # NoError
     THEN Bridge(w, rv, file, Reply(resolved.error, NoPrompt, NoPrompt), NoPrompt)
     ELSE Bridge(w, updateReviewState(rv, resolved.promptId, t), file,
                 Reply("prompt", resolved.promptId, NoPrompt), NoPrompt)

\* the confirmation runConfirmFlow hands to applyUserConfirmation
flowConfirmation(pending, promptId, parsed, t) ==
  [prompt_id |-> promptId, entity_id |-> pending.entity_id, domain |-> pending.domain,
   proposed_change |-> pending.proposed_change, confidence |-> pending.confidence,
   reason_summary |-> pending.reason_summary, action |-> parsed.action,
   edited_value |-> IF parsed.action = "edit" THEN parsed.editedValue ELSE NoValue,
   ts |-> t]

runConfirmFlow(w, rv, file, parsed, promptId, t) ==
  LET pending == w.pending_confirmations[PendingIndex(w.pending_confirmations, promptId)]
      confirmation == flowConfirmation(pending, promptId, parsed, t)
  IN CHOOSE b \in
       UNION { { IF r.result.status \notin {"committed", "rejected"}
                 THEN Bridge(p.w, rv, p.heartbeat,
                             Reply("Could not apply confirmation", NoPrompt, NoPrompt), NoPrompt)
                 ELSE Bridge(p.w,
                             updateReviewState(rv, pickNextPendingForEntity(
                               p.w.pending_confirmations, pending.entity_id), t),
                             p.heartbeat,
                             Reply("ack", pickNextPendingForEntity(
                               p.w.pending_confirmations, pending.entity_id), promptId),
                             promptId)
                 : p \in {renderHeartbeatProjection(r.w, file,
                                                    [entity_id |-> pending.entity_id], t)} }
               : r \in {applyUserConfirmation(w, confirmation, t)} } : TRUE

\* the handler of the /state-confirm command
stateConfirmCommand(w, rv, file, args, t) ==
  LET parsed == parseControlArgs(args)
      resolved == resolvePrompt(w, rv, parsed.promptRef)
  IN IF parsed.action = "invalid"
     THEN Bridge(w, rv, file, Reply("usage", NoPrompt, NoPrompt), NoPrompt)
     ELSE IF parsed.action = "show"
     THEN showPendingPrompt(w, rv, file, parsed.promptRef, t)
     ELSE IF resolved.error # NoError
     THEN Bridge(w, rv, file, Reply(resolved.error, NoPrompt, NoPrompt), NoPrompt)
     ELSE runConfirmFlow(w, rv, file, parsed, resolved.promptId, t)

\* the message_received hook on a text that is a plain yes / no, or that
\* shouldSkipInboundAssertion skips (shorter than ingestMinChars)
maybeApplyNaturalDecision(w, rv, file, text, t) ==
  LET action == parseNaturalConfirmationAction(text)
      resolved == resolvePrompt(w, rv, <<>>)
  IN IF action = "" \/ resolved.error # NoError
     THEN Bridge(w, rv, file, Reply("", NoPrompt, NoPrompt), NoPrompt)
     ELSE runConfirmFlow(w, rv, file, Parsed(action, <<>>, NoValue), resolved.promptId, t)

\* ------------------------------------------------------------------------
\* Review worker (scripts/state-telegram-review.js): one tick
\* ------------------------------------------------------------------------
WORKER_ENTITY_ID == "user:primary"

\* the user messages from startOffset to the end of the session file;
\* offsets count user messages
readSessionSlice(sess, startOffset) ==
  LET size == Len(sess)
      start == IF startOffset < 0 \/ startOffset > size THEN 0 ELSE startOffset
  IN [first |-> start, messages |-> SubSeq(sess, start + 1, size), nextOffset |-> size]

parseNewUserMessages(sess, cursorOffset) == readSessionSlice(sess, cursorOffset)

Decision(action, promptId, editedValue) ==
  [action |-> action, promptId |-> promptId, editedValue |-> editedValue]

\* the parser without the plain words: only "<action> <ref> [value]" decides
parseDecisionFromText_RefOnly(text) ==
  IF Len(text) >= 2 /\ text[1].word \in {"confirm", "reject", "edit"} /\ IsRef(text[2])
  THEN IF text[1].word # "edit" THEN Decision(text[1].word, text[2].chars, NoValue)
       ELSE IF Len(text) = 2 THEN Decision("edit_help", text[2].chars, NoValue)
       ELSE Decision("edit", text[2].chars, text[3].word)
  ELSE Decision("none", <<>>, NoValue)

\* the texts "<action> <ref> [value]", "yes ...", "no ...", "edit",
\* "edit : <value>"; the button callback and "<id> <action>" forms are not
\* among the texts of the model
parseDecisionFromText(text) ==
  IF Len(text) = 0 THEN Decision("none", <<>>, NoValue)
  ELSE IF Len(text) >= 2 /\ text[1].word \in {"confirm", "reject", "edit"} /\ IsRef(text[2])
  THEN IF text[1].word # "edit" THEN Decision(text[1].word, text[2].chars, NoValue)
       ELSE IF Len(text) = 2 THEN Decision("edit_help", text[2].chars, NoValue)
       ELSE Decision("edit", text[2].chars, text[3].word)
  ELSE IF text[1].word \in {"confirm", "approve", "approved", "yes", "y", "ok", "okay"}
  THEN Decision("confirm", <<>>, NoValue)
  ELSE IF text[1].word \in {"reject", "decline", "no", "n"}
  THEN Decision("reject", <<>>, NoValue)
  ELSE IF Len(text) = 1 /\ text[1].word \in {"edit", "change"}
  THEN Decision("edit_help", <<>>, NoValue)
  ELSE IF Len(text) >= 3 /\ text[1].word \in {"edit", "change", "set"} /\ text[2].word = ":"
  THEN Decision("edit", <<>>, text[3].word)
  ELSE Decision("none", <<>>, NoValue)

\* mutation: any reference matches the active prompt
matchesPromptReference_Any(activePromptId, decisionPromptId) == TRUE

matchesPromptReference(activePromptId, decisionPromptId) ==
  \/ decisionPromptId = <<>>
  \/ UuidText(activePromptId) = decisionPromptId
  \/ /\ Len(decisionPromptId) >= MIN_REF_LENGTH
     /\ StartsWith(UuidText(activePromptId), decisionPromptId)

\* the index in messages of the last message that decides the active prompt,
\* 0 when there is none
pickDecisionForActivePrompt(messages, activePromptId) ==
  LET deciding == { i \in 1..Len(messages) :
                      /\ parseDecisionFromText(messages[i]).action # "none"
                      /\ matchesPromptReference(activePromptId,
                                                parseDecisionFromText(messages[i]).promptId) }
  IN IF deciding = {} THEN 0 ELSE CHOOSE i \in deciding : \A j \in deciding : j <= i

\* mutation: the newest prompt comes first
getPendingConfirmations_NewestFirst(w, entityId) ==
  LET sorted == sortPending(SelectSeq(w.pending_confirmations,
                                      LAMBDA p : entityId = "" \/ p.entity_id = entityId))
  IN [i \in 1..Len(sorted) |-> sorted[Len(sorted) + 1 - i]]

getPendingConfirmations(w, entityId) ==
  sortPending(SelectSeq(w.pending_confirmations,
                        LAMBDA p : entityId = "" \/ p.entity_id = entityId))

\* `state-consistency.js confirm --prompt-id .. --action ..` run as a child
\* process: what it leaves in the workspace, the status it prints and its
\* exit code
confirmCommand(w, promptId, decision, t) ==
  LET idx == PendingIndex(w.pending_confirmations, promptId)
      pending == w.pending_confirmations[idx]
      confirmation ==
        [prompt_id |-> pending.prompt_id, entity_id |-> pending.entity_id,
         domain |-> pending.domain, proposed_change |-> pending.proposed_change,
         confidence |-> pending.confidence, reason_summary |-> pending.reason_summary,
         action |-> decision.action,
         edited_value |-> IF decision.action = "edit" THEN decision.editedValue ELSE NoValue,
         ts |-> t]
  IN IF idx = 0 THEN [w |-> w, status |-> "not_found", exit |-> 2]
     ELSE CHOOSE c \in
            { [w |-> r.w, status |-> r.result.status,
               exit |-> IF r.result.status \in {"validation_failed", "not_found"}
                        THEN 2 ELSE 0]
              : r \in {applyUserConfirmation(w, confirmation, t)} } : TRUE

\* mutation: the exit code of the child is not looked at
runConfirmCommand_IgnoresExit(w, promptId, decision, t) ==
  CHOOSE x \in { [w |-> c.w, status |-> c.status, threw |-> FALSE]
                 : c \in {confirmCommand(w, promptId, decision, t)} } : TRUE

\* execFileSync("node", ...) throws when the child exits non-zero
runConfirmCommand(w, promptId, decision, t) ==
  CHOOSE x \in { [w |-> c.w, status |-> c.status, threw |-> c.exit # 0]
                 : c \in {confirmCommand(w, promptId, decision, t)} } : TRUE

\* what a tick leaves behind: the workspace, the review-state file, the
\* messages delivered, the decision applied and the value main() returns
Ticked(w, rv, sent, decided, status, dispatchedPromptId) ==
  [w |-> w, review |-> rv, sent |-> sent, decided |-> decided,
   result |-> [status |-> status, dispatched_prompt_id |-> dispatchedPromptId,
               active_prompt_id |-> rv.active_prompt_id]]

\* the second half of a tick: drop an active prompt that is no longer
\* pending, dispatch the first pending prompt when none is active, write the
\* review-state file.  sends are the messages of the first half; failAt is
\* the send of this tick that throws (0: none does).
dispatchNext(w, rv0, rt, sess, sends, decided, failAt, t) ==
  LET pending == getPendingConfirmations(w, WORKER_ENTITY_ID)
      activeStillPending ==
        /\ rt.active_prompt_id # NoPrompt
        /\ \E i \in 1..Len(pending) : pending[i].prompt_id = rt.active_prompt_id
      rt1 == IF activeStillPending THEN rt ELSE [rt EXCEPT !.active_prompt_id = NoPrompt]
      dispatch == rt1.active_prompt_id = NoPrompt /\ Len(pending) > 0
      next == pending[1]
      allSends == IF dispatch
                  THEN Append(sends, Sent("worker", Reply("prompt", next.prompt_id, NoPrompt)))
                  ELSE sends
      rt2 == IF dispatch
             THEN [rt1 EXCEPT !.active_prompt_id = next.prompt_id,
                              !.last_dispatched_at = t,
                              !.session_cursor = Len(sess)]
             ELSE rt1
  IN IF failAt # 0 /\ failAt <= Len(allSends)
     THEN Ticked(w, rv0, SubSeq(allSends, 1, failAt - 1), decided, "error", NoPrompt)
     ELSE Ticked(w, rt2, allSends, decided, "ok",
                 IF dispatch THEN next.prompt_id ELSE NoPrompt)

syncReviewOnce(w, rv, sess, failAt, t) ==
  LET parsed == parseNewUserMessages(sess, rv.session_cursor)
      rt == [rv EXCEPT !.session_cursor = parsed.nextOffset]
      at == IF rv.active_prompt_id = NoPrompt THEN 0
            ELSE pickDecisionForActivePrompt(parsed.messages, rv.active_prompt_id)
      decision == parseDecisionFromText(parsed.messages[at])
      ack == Sent("worker", Reply("ack", NoPrompt, rv.active_prompt_id))
      synced == Sent("worker", Reply("synced", NoPrompt, NoPrompt))
      help == Sent("worker", Reply("edit_help", NoPrompt, rv.active_prompt_id))
  IN IF at = 0
     THEN dispatchNext(w, rv, rt, sess, <<>>, <<>>, failAt, t)
     ELSE IF decision.action = "edit_help"
     THEN dispatchNext(w, rv, rt, sess, <<help>>, <<>>, failAt, t)
     ELSE CHOOSE done \in
            { IF c.threw
              THEN Ticked(c.w, rv, <<>>, <<>>, "error", NoPrompt)
              ELSE dispatchNext(c.w, rv,
                                [rt EXCEPT !.last_decision_at = t,
                                           !.active_prompt_id = NoPrompt],
                                sess, <<ack, synced>>,
                                <<Decided("worker", rv.active_prompt_id, parsed.first + at)>>,
                                failAt, t)
              : c \in {runConfirmCommand(w, rv.active_prompt_id, decision, t)} } : TRUE

\* the sends a tick attempts when none fails
SendsOf(w, rv, sess, t) == Len(syncReviewOnce(w, rv, sess, 0, t).sent)

\* ------------------------------------------------------------------------
\* Inputs
\* ------------------------------------------------------------------------
EventIds == {<<"evt", n>> : n \in 1..MaxEvents}

InputRef == [kind |-> "thread", id |-> <<"msg", 1>>]

\* (source.type, intent) of the observations offered to ingest: at age 0 they
\* score 0.9 (auto band), 0.855 and 0.75 (ask band) and 0.408 (below ask)
ObservationProfiles ==
  { [type |-> "conversation_assertive", intent |-> "assertive"],
    [type |-> "conversation_assertive", intent |-> "retract"],
    [type |-> "conversation_planning", intent |-> "assertive"],
    [type |-> "static_markdown", intent |-> "historical"] }

ObsValues == {"Tahoe", NULL}

Observation(e, ent, v, p) ==
  [event_id |-> e, event_ts |-> 0, domain |-> "travel", entity_id |-> ent,
   field |-> <<"travel", "status">>, candidate_value |-> v, intent |-> p.intent,
   source |-> [type |-> p.type, ref |-> InputRef], corroborators |-> <<>>]

Observations ==
  { Observation(e, "user:primary", v, p) :
      e \in EventIds, v \in ObsValues, p \in ObservationProfiles }

\* force_commit is offered for the ask-band source only
IngestInputs ==
  { [observation |-> o, force_commit |-> FALSE] : o \in Observations }
  \cup { [observation |-> o, force_commit |-> TRUE] :
           o \in {x \in Observations : x.source.type = "conversation_planning"} }

\* payloads the observation schema rejects (domain outside the enumeration)
BadObservations ==
  { [event_id |-> <<"evt", 1>>, event_ts |-> 0, domain |-> "weather",
     entity_id |-> "user:primary", field |-> <<"weather", "status">>,
     candidate_value |-> "Tahoe", intent |-> "assertive",
     source |-> [type |-> "conversation_assertive", ref |-> InputRef],
     corroborators |-> <<>>] }

\* ------------------------------------------------------------------------
\* Workspace <-> variables
\* ------------------------------------------------------------------------
W ==
  [entities |-> entities, pending_confirmations |-> pending_confirmations,
   tentative_observations |-> tentative_observations,
   processed_event_ids |-> processed_event_ids, learning_stats |-> learning_stats,
   runtime |-> runtime, domains |-> domains,
   last_consistency_check |-> last_consistency_check,
   audit |-> audit, dlq |-> dlq, learning_events |-> learning_events,
   nextUuid |-> nextUuid]

\* the model stops a run when the audit log or the DLQ would outgrow its bound
WithinBounds(w, maxAudit) ==
  /\ Len(w.audit) <= maxAudit
  /\ Len(w.dlq) <= MaxDlq

Store(w) ==
  /\ entities' = w.entities
  /\ pending_confirmations' = w.pending_confirmations
  /\ tentative_observations' = w.tentative_observations
  /\ processed_event_ids' = w.processed_event_ids
  /\ learning_stats' = w.learning_stats
  /\ runtime' = w.runtime
  /\ domains' = w.domains
  /\ last_consistency_check' = w.last_consistency_check
  /\ audit' = w.audit
  /\ dlq' = w.dlq
  /\ learning_events' = w.learning_events
  /\ nextUuid' = w.nextUuid

\* what is remembered of the last call: the operation, what it was about
\* (the event_id, the prompt_id or the signal) and what it returned
Called(op, id, result) == [op |-> op, id |-> id, result |-> result]

\* the processes that read and write the canonical document: the poller,
\* the confirm child of the review worker, the gateway with the chat bridge
Procs == {"poller", "confirm", "bridge"}

\* createDefaultState and the files ensureStateFiles creates
Init ==
  /\ entities = EmptyObj
  /\ pending_confirmations = <<>>
  /\ tentative_observations = <<>>
  /\ processed_event_ids = <<>>
  /\ learning_stats = [auto_commits |-> 0, auto_commit_corrections |-> 0,
                       ask_user_confirmations |-> 0, user_confirms |-> 0,
                       user_rejects |-> 0, user_edits |-> 0]
  /\ runtime = [projection_hashes |-> [h \in {canonicalHeading, changesHeading} |-> NoHash],
                last_poll_at |-> NoTs, last_review_queue_at |-> NoTs,
                adaptive_learning |-> createDefaultAdaptiveRuntime]
  /\ domains = DOMAIN_DEFAULTS
  /\ last_consistency_check = NoTs
  /\ audit = <<>>
  /\ dlq = <<>>
  /\ learning_events = <<>>
  /\ heartbeat = NoFile
  /\ now = 0
  /\ nextUuid = 1
  /\ review = defaultReviewRuntimeState
  /\ session = <<>>
  /\ outbox = <<>>
  /\ dispatched = {}
  /\ decisions = <<>>
  /\ loaded = [p \in Procs |-> <<>>]
  /\ last = Called("init", NoId, Result("init", NoId, NoId))

\* the clock advances between calls
Tick ==
  /\ now < MaxNow * HoursPerTick
  /\ now' = now + HoursPerTick
  /\ UNCHANGED chat
  /\ last' = Called("tick", NoId, Result("tick", NoId, NoId))
  /\ UNCHANGED <<doc, files, nextUuid>>

Ingest(o, forceCommit) ==
  LET r == ingestObservation(W, o, forceCommit, now)
  IN /\ WithinBounds(r.w, MaxAudit)
     /\ Store(r.w)
     /\ UNCHANGED chat
     /\ last' = Called("ingest", o.event_id, r.result)
     /\ UNCHANGED <<heartbeat, now>>

\* the confirmations a user (or the worker) can send: about a pending
\* prompt or about a prompt id that is not pending
GhostPromptId == <<"uuid", 0>>

Confirmation(promptId, entityId, action, editedValue) ==
  [prompt_id |-> promptId, entity_id |-> entityId, domain |-> "travel",
   proposed_change |-> "", confidence |-> 0, reason_summary |-> <<>>,
   action |-> action, edited_value |-> editedValue, ts |-> NoTs]

\* what is sent about a pending prompt p: the three actions, an edit to a value
\* the observation schema rejects, a payload the confirmation schema rejects,
\* and a confirmation naming another entity
OtherEntity(e) == IF e = "user:primary" THEN "team:core" ELSE "user:primary"

ConfirmationsFor(p) ==
  { Confirmation(p.prompt_id, p.entity_id, "confirm", NoValue),
    Confirmation(p.prompt_id, p.entity_id, "reject", NoValue),
    Confirmation(p.prompt_id, p.entity_id, "edit", "Reno"),
    Confirmation(p.prompt_id, p.entity_id, "edit", OVERLONG),
    Confirmation(p.prompt_id, p.entity_id, "maybe", NoValue),
    Confirmation(p.prompt_id, OtherEntity(p.entity_id), "confirm", NoValue),
    [Confirmation(p.prompt_id, p.entity_id, "confirm", NoValue) EXCEPT !.domain = "family"] }

Confirmations ==
  UNION { ConfirmationsFor(pending_confirmations[i]) : i \in 1..Len(pending_confirmations) }
  \cup { Confirmation(GhostPromptId, "user:primary", "confirm", NoValue) }

ApplyConfirmation(c) ==
  LET r == applyUserConfirmation(W, c, now)
  IN /\ WithinBounds(r.w, MaxAudit)
     /\ Store(r.w)
     /\ UNCHANGED chat
     /\ last' = Called("confirm", c.prompt_id, r.result)
     /\ UNCHANGED <<heartbeat, now>>

ReviewOptions ==
  { [entity_id |-> e, domain |-> "", min_confidence |-> Absent, limit |-> l, max_pending |-> m]
    : e \in {"", "user:primary"}, l \in {Absent}, m \in {Absent, 1} }

PromoteReviewQueue(options) ==
  LET r == promoteReviewQueue(W, options, now)
  IN /\ WithinBounds(r.w, MaxAudit)
     /\ Store(r.w)
     /\ UNCHANGED chat
     /\ last' = Called("promote", NoId, [r.result EXCEPT !.promoted = Len(@)])
     /\ UNCHANGED <<heartbeat, now>>

SignalItem(ref, value) ==
  [domain |-> "travel", field |-> <<"travel", "departure">>, ref |-> ref, value |-> value,
   intent |-> NoValue, corroborators |-> <<>>]

\* one item without a ref and two revisions of a calendar event
SignalItems ==
  { SignalItem(NoRef, "07:00"), SignalItem("calendar_event:abc", "07:00"),
    SignalItem("calendar_event:abc", "08:00") }

RECURSIVE SeqsUpTo(_, _)
SeqsUpTo(S, n) ==
  IF n = 0 THEN {<<>>}
  ELSE LET shorter == SeqsUpTo(S, n - 1)
       IN shorter \cup {Append(q, x) : q \in {y \in shorter : Len(y) = n - 1}, x \in S}

Signal(kind, items) ==
  [signal_id |-> <<"sig", 1>>, event_ts |-> 0,
   source |-> [kind |-> kind, mode |-> "poll", ref |-> "gcal:next-24h"],
   entity_id |-> "user:primary", items |-> items]

\* calendar polls of 1..MaxItems items, and one payload the signal schema rejects
Signals ==
  { Signal("calendar", items) : items \in SeqsUpTo(SignalItems, MaxItems) \ {<<>>} }
  \cup { Signal("fax", <<SignalItem(NoRef, "07:00")>>) }

IngestSignal(signal, forceCommit) ==
  LET r == ingestSignalEvent(W, signal, forceCommit, now)
  IN /\ WithinBounds(r.w, MaxSignalAudit)
     /\ Store(r.w)
     /\ UNCHANGED chat
     /\ last' = Called("ingest_signal", signal,
                       [status |-> r.result.status, summary |-> r.summary,
                        total_items |-> Len(signal.items)])
     /\ UNCHANGED <<heartbeat, now>>

PendingPromptIds == {pending_confirmations[i].prompt_id : i \in 1..Len(pending_confirmations)}

\* the observations offered in the lifecycle specification, for two entities:
\* one auto-band, two ask-band and one below the ask threshold, and a
\* retraction of the field
LifecycleObservations ==
  { o \in { Observation(<<"evt", n>>, ent, v, p) :
              n \in 1..MaxLifecycleEvents, ent \in VALID_ENTITY_IDS,
              v \in ObsValues, p \in ObservationProfiles } :
      o.candidate_value = "Tahoe" \/ o.intent = "retract" }

NextIngest ==
  \/ \E i \in IngestInputs : Ingest(i.observation, i.force_commit)
  \/ \E o \in BadObservations : Ingest(o, FALSE)

SpecIngest == Init /\ [][NextIngest]_vars

Next ==
  \/ \E o \in LifecycleObservations \cup BadObservations : Ingest(o, FALSE)
  \/ \E c \in Confirmations : ApplyConfirmation(c)
  \/ \E options \in ReviewOptions : PromoteReviewQueue(options)

Spec == Init /\ [][Next]_vars

\* force_commit is offered for the polls of one item
NextSignal ==
  \/ \E signal \in Signals : IngestSignal(signal, FALSE)
  \/ \E signal \in {x \in Signals : Len(x.items) = 1} : IngestSignal(signal, TRUE)

SpecSignal == Init /\ [][NextSignal]_vars

\* ---- projection and the person editing HEARTBEAT.md ----
ProjectionOptions == { [entity_id |-> e] : e \in {"", "user:primary"} }

Project(options) ==
  LET r == renderHeartbeatProjection(W, heartbeat, options, now)
  IN /\ WithinBounds(r.w, MaxProjectionAudit)
     /\ Store(r.w)
     /\ heartbeat' = r.heartbeat
     /\ UNCHANGED chat
     /\ last' = Called("project", options, r.result)
     /\ UNCHANGED now

HumanNote == Human("Remember the passports.")
HumanPostscript == Human("Call the hotel.")
HumanZoneEdit == Human("- travel.status = Reno")

HumanLast == Called("human", NoId, Result("edited", NoId, NoId))

\* a person creates HEARTBEAT.md with a note before the engine ever projects
HumanCreates ==
  /\ heartbeat = NoFile
  /\ heartbeat' = <<T("# HEARTBEAT.md"), NL, NL, HumanNote, NL>>
  /\ UNCHANGED chat
  /\ last' = HumanLast
  /\ UNCHANGED <<doc, audit, dlq, learning_events, now, nextUuid>>

\* a person appends a line at the end of the file, after the managed zones
HumanAppends ==
  /\ heartbeat # NoFile
  /\ ~Includes(heartbeat, HumanPostscript)
  /\ heartbeat' = heartbeat \o <<HumanPostscript, NL>>
  /\ UNCHANGED chat
  /\ last' = HumanLast
  /\ UNCHANGED <<doc, audit, dlq, learning_events, now, nextUuid>>

\* a person replaces the body of the canonical zone by a line of their own
HumanEditsZone ==
  LET markers == zoneMarkers(canonicalZoneId)
      startIdx == IndexOf(heartbeat, markers.start)
      endIdx == IndexOf(heartbeat, markers.end)
  IN /\ heartbeat # NoFile
     /\ startIdx # 0 /\ endIdx > startIdx
     /\ ~Includes(heartbeat, HumanZoneEdit)
     /\ heartbeat' = SubSeq(heartbeat, 1, startIdx) \o <<NL, HumanZoneEdit, NL>>
                       \o SubSeq(heartbeat, endIdx, Len(heartbeat))
     /\ UNCHANGED chat
     /\ last' = HumanLast
     /\ UNCHANGED <<doc, audit, dlq, learning_events, now, nextUuid>>

\* the observations offered in the projection specification: an auto-band and an
\* ask-band observation of one field
ProjectionObservations ==
  { Observation(<<"evt", n>>, "user:primary", "Tahoe", p) :
      n \in 1..MaxProjectionEvents,
      p \in { [type |-> "conversation_assertive", intent |-> "assertive"],
              [type |-> "conversation_planning", intent |-> "assertive"] } }

NextProjection ==
  \/ \E o \in ProjectionObservations : Ingest(o, FALSE)
  \/ \E options \in ProjectionOptions : Project(options)
  \/ HumanCreates
  \/ HumanAppends
  \/ HumanEditsZone
  \/ Tick

SpecProjection == Init /\ [][NextProjection]_vars

\* ---- the DLQ and its retry runs ----
\* entries put into the DLQ log by hand, as the retry test seeds them: an
\* observation that commits, one that asks, a confirmation of a pending or of
\* an unknown prompt (for the prompt's entity or for another one), and an
\* entry of a schema the retrier does not know
SeededPayloads ==
  { [schema_name |-> "observation", payload |-> Observation(<<"evt", 1>>, "user:primary", "Tahoe", p)]
      : p \in { [type |-> "conversation_assertive", intent |-> "assertive"],
                [type |-> "conversation_planning", intent |-> "assertive"] } }
  \cup { [schema_name |-> "confirmation", payload |-> Confirmation(id, e, "confirm", NoValue)]
          : id \in PendingPromptIds, e \in VALID_ENTITY_IDS }
  \cup { [schema_name |-> "confirmation",
          payload |-> Confirmation(GhostPromptId, "user:primary", "confirm", NoValue)] }
  \cup { [schema_name |-> "fax", payload |-> [pages |-> 1]] }

SeededCount == Cardinality({i \in 1..Len(dlq) : dlq[i].line = "entry" /\ dlq[i].dlq_id[1] = "seed"})

\* fs.appendFileSync of one pending_retry entry that is due at once
SeedDlq(seed) ==
  /\ SeededCount < MaxSeeds
  /\ Len(dlq) < MaxDlqLines
  /\ dlq' = Append(dlq, DlqLine("entry", <<"seed", Len(dlq) + 1>>, seed.schema_name,
                                seed.payload, now, 0, [base |-> now, wait_ms |-> 0],
                                "pending_retry", NoTs, "", NoTs))
  /\ UNCHANGED chat
  /\ last' = Called("seed_dlq", NoId, Result("seeded", NoId, NoId))
  /\ UNCHANGED <<doc, audit, learning_events, heartbeat, now, nextUuid>>

\* an ingest the observation schema rejects: the payload is quarantined
Quarantine(o) ==
  \E r \in {ingestObservation(W, o, FALSE, now)} :
     /\ Len(r.w.dlq) <= MaxDlqLines
     /\ \A i \in 1..Len(dlq) :
           dlq[i].line # "entry" \/ dlq[i].schema_name # "observation" \/ dlq[i].payload # o
     /\ Store(r.w)
     /\ UNCHANGED chat
     /\ last' = Called("ingest", o.event_id, r.result)
     /\ UNCHANGED <<heartbeat, now>>

RetryOptions ==
  { [include_not_due |-> d, limit |-> l, max_retries |-> m, force_commit |-> FALSE]
      : d \in BOOLEAN, l \in {Absent, 1}, m \in {Absent, 1} }

RetryDlq(options) ==
  \E r \in {retryDlqEntries(W, options, now)} :
     /\ Len(r.w.dlq) <= MaxDlqLines
     /\ r.result.selected > 0
     /\ Store(r.w)
     /\ UNCHANGED chat
     /\ last' = Called("retry_dlq", options, r.result)
     /\ UNCHANGED <<heartbeat, now>>

NextDlq ==
  \/ \E seed \in SeededPayloads : SeedDlq(seed)
  \/ \E o \in BadObservations : Quarantine(o)
  \/ \E options \in RetryOptions : RetryDlq(options)
  \/ Tick

SpecDlq == Init /\ [][NextDlq]_vars

\* ---- the DLQ filled by schema failures only ----
\* an ingest of a file that holds null: the observation schema rejects it
\* and the payload is quarantined
QuarantineFalsy ==
  \E r \in {ingestObservation(W, JsonNull, FALSE, now)} :
     /\ Len(r.w.dlq) <= MaxDlqLines
     /\ \A i \in 1..Len(dlq) : dlq[i].payload # JsonNull
     /\ Store(r.w)
     /\ UNCHANGED chat
     /\ last' = Called("ingest", NoId, r.result)
     /\ UNCHANGED <<heartbeat, now>>

NextQuarantine ==
  \/ \E o \in BadObservations : Quarantine(o)
  \/ QuarantineFalsy
  \/ \E options \in RetryOptions : RetryDlq(options)
  \/ Tick

SpecQuarantine == Init /\ [][NextQuarantine]_vars

\* ---- the threshold learner ----
\* what the confirmations of one domain have left in the learning-events log:
\* a list of (action, confidence of the prompt)
OutcomePatterns ==
  { <<>>,
    << <<"confirm", 750>>, <<"confirm", 750>>, <<"confirm", 855>>, <<"confirm", 750>> >>,
    << <<"reject", 750>>, <<"edit", 855>>, <<"reject", 855>>, <<"edit", 750>> >>,
    << <<"confirm", 750>>, <<"confirm", 855>>, <<"confirm", 750>>, <<"edit", 855>> >>,
    << <<"reject", 950>>, <<"edit", 950>>, <<"reject", 950>>, <<"confirm", 750>> >> }

LearningLog(domain, pattern) ==
  [i \in 1..Len(pattern) |->
     [learning_event_id |-> <<"learn", domain, i>>, ts |-> 0, entity_id |-> "user:primary",
      domain |-> domain, field |-> <<domain, "status">>, decision |-> "ask_user",
      action |-> pattern[i][1],
      outcome |-> IF pattern[i][1] = "confirm" THEN "accepted" ELSE "corrected",
      confidence |-> pattern[i][2], intent |-> "assertive",
      source_type |-> "conversation_planning", source_ref |-> InputRef,
      prompt_id |-> <<"uuid", i>>]]

\* a workspace whose learning-events log holds the outcomes of earlier
\* confirmations in the domains travel and profile
InitLearner ==
  /\ entities = EmptyObj
  /\ pending_confirmations = <<>>
  /\ tentative_observations = <<>>
  /\ processed_event_ids = <<>>
  /\ learning_stats = [auto_commits |-> 0, auto_commit_corrections |-> 0,
                       ask_user_confirmations |-> 0, user_confirms |-> 0,
                       user_rejects |-> 0, user_edits |-> 0]
  /\ runtime = [projection_hashes |-> [h \in {canonicalHeading, changesHeading} |-> NoHash],
                last_poll_at |-> NoTs, last_review_queue_at |-> NoTs,
                adaptive_learning |-> createDefaultAdaptiveRuntime]
  /\ domains = DOMAIN_DEFAULTS
  /\ last_consistency_check = NoTs
  /\ audit = <<>>
  /\ dlq = <<>>
  /\ \E p \in OutcomePatterns, q \in OutcomePatterns :
        learning_events = LearningLog("travel", p) \o LearningLog("profile", q)
  /\ heartbeat = NoFile
  /\ now = 0
  /\ nextUuid = 1
  /\ review = defaultReviewRuntimeState
  /\ session = <<>>
  /\ outbox = <<>>
  /\ dispatched = {}
  /\ decisions = <<>>
  /\ loaded = [p \in Procs |-> <<>>]
  /\ last = Called("init", NoId, Result("init", NoId, NoId))

LearnOptions ==
  { [mode |-> mode, min_samples |-> n, max_daily_step |-> step,
     min_interval_hours |-> Absent, force |-> f]
      : mode \in {"", "shadow", "apply"}, n \in {Absent, 4}, step \in {Absent, 200},
        f \in BOOLEAN }

Learn(options) ==
  \E r \in {runAdaptiveThresholdLearning(W, options, now)} :
     /\ Len(r.w.audit) <= MaxLearnerAudit
     /\ Store(r.w)
     /\ UNCHANGED chat
     /\ last' = Called("learn", options, r.result)
     /\ UNCHANGED <<heartbeat, now>>

NextLearner ==
  \/ \E options \in LearnOptions : Learn(options)
  \/ Tick

SpecLearner == InitLearner /\ [][NextLearner]_vars

\* ---- observations that arrive out of order ----
\* observations of travel.status stamped with any hour of the clock: an
\* ask-band one (0.75, offered with and without force_commit), and corroborated
\* assertions and retractions that reach the auto band while they are fresh
OrderInputs ==
  { [observation |-> [Observation(<<"evt", n>>, "user:primary", "Tahoe", p)
                        EXCEPT !.event_ts = ts],
     force_commit |-> f]
      : n \in 1..MaxLifecycleEvents, ts \in 0..MaxHours, f \in BOOLEAN,
        p \in { [type |-> "conversation_planning", intent |-> "assertive"] } }
  \cup
  { [observation |-> [Observation(<<"evt", n>>, "user:primary", v,
                                  [type |-> "conversation_assertive",
                                   intent |-> IF v = NULL THEN "retract" ELSE "assertive"])
                        EXCEPT !.event_ts = ts,
                               !.corroborators = << [type |-> "calendar_poll", ref |-> InputRef],
                                                    [type |-> "email_poll", ref |-> InputRef] >>],
     force_commit |-> FALSE]
      : n \in 1..MaxLifecycleEvents, ts \in 0..MaxHours, v \in {"Reno", NULL} }

\* the clock advances by one hour
HourPasses ==
  /\ now < MaxHours
  /\ now' = now + 1
  /\ UNCHANGED chat
  /\ last' = Called("tick", NoId, Result("tick", NoId, NoId))
  /\ UNCHANGED <<doc, files, nextUuid>>

NextOrder ==
  \/ \E i \in OrderInputs : Ingest(i.observation, i.force_commit)
  \/ HourPasses

SpecOrder == Init /\ [][NextOrder]_vars

\* ---- the learner's throttle ----
\* runs in apply mode over four samples, with the stored interval or an
\* interval of one hour, while the clock moves by hours and by days
ThrottleOptions ==
  { [mode |-> mode, min_samples |-> 4, max_daily_step |-> Absent,
     min_interval_hours |-> h, force |-> f]
      : mode \in {"", "apply"}, h \in {Absent, 1}, f \in BOOLEAN }

NextThrottle ==
  \/ \E options \in ThrottleOptions : Learn(options)
  \/ HourPasses
  \/ Tick

SpecThrottle == InitLearner /\ [][NextThrottle]_vars

\* ---- a stream of observations longer than the caps ----
\* an ask-band and a below-ask observation for every event id
StreamObservations ==
  { Observation(e, "user:primary", "Tahoe", p) :
      e \in EventIds,
      p \in { [type |-> "conversation_planning", intent |-> "assertive"],
              [type |-> "static_markdown", intent |-> "historical"] } }

\* every observation is offered with and without force_commit
StreamInputs ==
  { [observation |-> o, force_commit |-> f] : o \in StreamObservations, f \in BOOLEAN }

IngestStream(o, forceCommit) ==
  LET r == ingestObservation(W, o, forceCommit, now)
  IN /\ WithinBounds(r.w, MaxStreamAudit)
     /\ Store(r.w)
     /\ UNCHANGED chat
     /\ last' = Called("ingest", o.event_id, r.result)
     /\ UNCHANGED <<heartbeat, now>>

NextStream == \E i \in StreamInputs : IngestStream(i.observation, i.force_commit)

SpecStream == Init /\ [][NextStream]_vars

\* ------------------------------------------------------------------------
\* The /state-confirm command of the bridge
\* ------------------------------------------------------------------------
\* ask-band observations (conversation_planning, 0.75): each ingest of a new
\* event creates a pending prompt
ReviewObservations ==
  { Observation(<<"evt", n>>, "user:primary", "Tahoe",
                [type |-> "conversation_planning", intent |-> "assertive"]) :
      n \in 1..MaxReviewEvents }

AskUser(o) ==
  \E r \in {ingestObservation(W, o, FALSE, now)} :
     /\ WithinBounds(r.w, MaxReviewAudit)
     /\ Store(r.w)
     /\ UNCHANGED chat
     /\ last' = Called("ingest", o.event_id, r.result)
     /\ UNCHANGED <<heartbeat, now>>

\* references a user types: the first eight characters of two prompt ids, a
\* whole id, and seven characters (too short to be a reference)
PromptRefs ==
  { SubSeq(UuidText(randomUuid(1)), 1, MIN_REF_LENGTH - 1),
    SubSeq(UuidText(randomUuid(1)), 1, MIN_REF_LENGTH),
    UuidText(randomUuid(2)),
    SubSeq(UuidText(randomUuid(3)), 1, MIN_REF_LENGTH) }

CommandArgs ==
  { <<>>, <<Word("yes")>>, <<Word("edit")>> }
  \cup UNION { { <<RefToken(ref)>>, <<RefToken(ref), Word("yes")>>,
                 <<Word("no"), RefToken(ref)>>,
                 <<RefToken(ref), Word("edit"), Word("Reno")>> } : ref \in PromptRefs }

StateConfirm(args) ==
  \E b \in {stateConfirmCommand(W, review, heartbeat, args, now)} :
     /\ WithinBounds(b.w, MaxReviewAudit)
     /\ Store(b.w)
     /\ heartbeat' = b.heartbeat
     /\ review' = b.review
     /\ outbox' = <<Sent("bridge", b.reply)>>
     /\ dispatched' = Dispatch(dispatched, b.reply.shown, "bridge", Len(session))
     /\ decisions' = IF b.decided = NoPrompt THEN decisions
                     ELSE Append(decisions, Decided("command", b.decided, 0))
     /\ last' = Called("state_confirm", args, b.reply)
     /\ UNCHANGED <<session, now, loaded>>

\* ------------------------------------------------------------------------
\* The confirmation loop: the user, the bridge's message hook and the worker
\* ------------------------------------------------------------------------
\* the message_received hook for a text that is a plain yes / no or that
\* shouldSkipInboundAssertion skips (shorter than ingestMinChars = 12)
messageReceived(w, rv, file, text, t) == maybeApplyNaturalDecision(w, rv, file, text, t)

ReplyTexts == { <<Word("yes")>>, <<Word("no")>>, <<Word("edit")>>, <<Word("hello")>> }

\* the user writes in the chat and the gateway appends the message to the
\* session file; the bridge is not listening on this channel
UserWrites(text) ==
  /\ Len(session) < MaxSession
  /\ session' = Append(session, text)
  /\ outbox' = <<>>
  /\ last' = Called("user", text, Result("written", NoId, NoId))
  /\ UNCHANGED <<doc, files, now, nextUuid, review, dispatched, decisions, loaded>>

\* the same with the bridge listening: the gateway appends the message to the
\* session file and runs the message_received hook, whose reply is dropped
Inbound(text) ==
  \E b \in {messageReceived(W, review, heartbeat, text, now)} :
     /\ Len(session) < MaxSession
     /\ WithinBounds(b.w, MaxReviewAudit)
     /\ Store(b.w)
     /\ heartbeat' = b.heartbeat
     /\ review' = b.review
     /\ session' = Append(session, text)
     /\ outbox' = <<>>
     /\ decisions' = IF b.decided = NoPrompt THEN decisions
                     ELSE Append(decisions, Decided("hook", b.decided, Len(session) + 1))
     /\ last' = Called("message_received", text, b.reply)
     /\ UNCHANGED <<now, dispatched, loaded>>

\* prompts the tick shows for the first time
RECURSIVE DispatchAll(_, _, _)
DispatchAll(shown, sent, at) ==
  IF Len(sent) = 0 THEN shown
  ELSE Dispatch(DispatchAll(shown, SubSeq(sent, 1, Len(sent) - 1), at),
                sent[Len(sent)].shown, "worker", at)

\* one run of the worker; failAt = k > 0: the k-th chat send of the run fails
WorkerTick(failAt) ==
  \E r \in {syncReviewOnce(W, review, session, failAt, now)} :
     /\ failAt <= SendsOf(W, review, session, now)
     /\ WithinBounds(r.w, MaxReviewAudit)
     /\ Store(r.w)
     /\ review' = r.review
     /\ outbox' = r.sent
     /\ dispatched' = DispatchAll(dispatched, r.sent, Len(session))
     /\ decisions' = decisions \o r.decided
     /\ last' = Called("sync_review", failAt, r.result)
     /\ UNCHANGED <<heartbeat, session, now, loaded>>

\* the command next to the worker
NextCommand ==
  \/ \E o \in ReviewObservations : AskUser(o)
  \/ \E args \in CommandArgs : StateConfirm(args)
  \/ \E failAt \in 0..MaxSends : WorkerTick(failAt)

SpecCommand == Init /\ [][NextCommand]_vars

\* the observations that create the prompts of the confirmation loop
LoopObservations == { o \in ReviewObservations : o.event_id[2] <= MaxLoopEvents }

NextReview ==
  \/ \E o \in LoopObservations : AskUser(o)
  \/ \E text \in ReplyTexts : UserWrites(text)
  \/ \E text \in ReplyTexts : Inbound(text)
  \/ \E failAt \in 0..MaxSends : WorkerTick(failAt)

SpecReview == Init /\ [][NextReview]_vars

\* ------------------------------------------------------------------------
\* The confirmation loop with the Yes / No buttons of a shown prompt
\* ------------------------------------------------------------------------
\* the callback of a button: "/state-confirm <prompt id> yes|no"
buildPromptButtons(promptId) ==
  { <<RefToken(UuidText(promptId)), Word(w)>> : w \in {"yes", "no"} }

\* the user presses a button of a prompt that was shown
PressButton ==
  \E d \in dispatched : \E args \in buildPromptButtons(d.prompt_id) : StateConfirm(args)

ChatTexts == { <<Word("ok")>>, <<Word("hello")>> }

NextButton ==
  \/ \E o \in LoopObservations : AskUser(o)
  \/ \E text \in ChatTexts : UserWrites(text)
  \/ PressButton
  \/ \E failAt \in 0..MaxSends : WorkerTick(failAt)

SpecButton == Init /\ [][NextButton]_vars

\* ------------------------------------------------------------------------
\* The replies to a decision: the user decides by command (yes, or an edit
\* to a value the observation schema rejects) or by a message the worker
\* reads
\* ------------------------------------------------------------------------
DecisionArgs ==
  { <<>>, <<Word("yes")>>,
    <<RefToken(SubSeq(UuidText(randomUuid(1)), 1, MIN_REF_LENGTH)), Word("edit"), Word(OVERLONG)>> }

DecisionTexts == { <<Word("yes")>> }

NextReply ==
  \/ \E o \in LoopObservations : AskUser(o)
  \/ \E text \in DecisionTexts : UserWrites(text)
  \/ \E args \in DecisionArgs : StateConfirm(args)
  \/ \E failAt \in 0..MaxSends : WorkerTick(failAt)

SpecReply == Init /\ [][NextReply]_vars

\* ------------------------------------------------------------------------
\* The queue of prompts: prompts of two entities created at different times,
\* the worker run from cron (every tick is a new process that knows what the
\* files hold) and the user answering yes
\* ------------------------------------------------------------------------
QueueObservations ==
  { [ Observation(<<"evt", n>>, IF n = 1 THEN "team:core" ELSE "user:primary", "Tahoe",
                  [type |-> "conversation_planning", intent |-> "assertive"])
        EXCEPT !.event_ts = IF n = MaxReviewEvents THEN HoursPerTick ELSE 0 ] :
      n \in 1..MaxReviewEvents }

NextQueue ==
  \/ \E o \in QueueObservations : AskUser(o)
  \/ \E text \in DecisionTexts : UserWrites(text)
  \/ \E failAt \in 0..MaxSends : WorkerTick(failAt)
  \/ Tick

SpecQueue == Init /\ [][NextQueue]_vars

\* ------------------------------------------------------------------------
\* Replies that name a prompt: by its whole id, by the first eight characters
\* of an id, or not at all
\* ------------------------------------------------------------------------
NamingTexts ==
  { <<Word("yes")>>,
    <<Word("confirm"), RefToken(UuidText(randomUuid(1)))>>,
    <<Word("confirm"), RefToken(UuidText(randomUuid(2)))>>,
    <<Word("reject"), RefToken(SubSeq(UuidText(randomUuid(3)), 1, MIN_REF_LENGTH))>>,
    <<Word("edit"), RefToken(UuidText(randomUuid(2))), Word("Reno")>> }

NextNaming ==
  \/ \E o \in LoopObservations : AskUser(o)
  \/ \E text \in NamingTexts : UserWrites(text)
  \/ \E failAt \in 0..MaxSends : WorkerTick(failAt)

SpecNaming == Init /\ [][NextNaming]_vars

\* ------------------------------------------------------------------------
\* Processes sharing the canonical document: each call reads the document
\* with loadState, works on its copy and writes the copy with saveState
\* (writeJson: a temporary file, then rename); nothing orders the read and
\* the write of one process with respect to those of another
\* ------------------------------------------------------------------------
\* the call a process is in: an ingest of an observation, or a confirmation
\* of a prompt
IngestCall(n) == [op |-> "ingest", event_id |-> <<"evt", n>>, prompt_id |-> NoPrompt, action |-> "none"]

ConfirmCall(promptId, action) == [op |-> "confirm", event_id |-> NoId, prompt_id |-> promptId, action |-> action]

\* the poller ingests, the confirm child confirms, the bridge does both
CallsOf(p) ==
  LET ingests == { IngestCall(n) : n \in 1..MaxLoopEvents }
      confirms == { ConfirmCall(randomUuid(n), a) : n \in 1..MaxLoopEvents, a \in {"confirm", "reject"} }
  IN CASE p = "poller" -> ingests
       [] p = "confirm" -> confirms
       [] OTHER -> ingests \cup confirms

\* the call on the copy of the document the process has read
RunCall(w, call, t) ==
  IF call.op = "ingest"
  THEN CHOOSE x \in { [w |-> r.w, status |-> r.result.status, prompt_id |-> r.result.prompt_id]
                      : r \in { ingestObservation(w, o, FALSE, t)
                                : o \in { l \in LoopObservations : l.event_id = call.event_id } } } : TRUE
  ELSE CHOOSE x \in { [w |-> c.w, status |-> c.status, prompt_id |-> NoId]
                      : c \in { confirmCommand(w, call.prompt_id, Decision(call.action, "", NoValue), t) } } : TRUE

\* the lines a call has appended to a file of its own copy
Appended(before, after) == SubSeq(after, Len(before) + 1, Len(after))

\* loadState: the process reads the document; the ids it will draw from
\* randomUUID are its own
LoadState(p, call) ==
  /\ Len(loaded[p]) = 0
  /\ nextUuid <= MaxRaceUuid
  /\ loaded' = [loaded EXCEPT ![p] = <<[w |-> W, call |-> call]>>]
  /\ nextUuid' = nextUuid + 1
  /\ last' = Called("load", p, [status |-> "loaded", call |-> call, prompt_id |-> NoId])
  /\ UNCHANGED <<doc, files, now, review, session, outbox, dispatched, decisions>>

\* saveState: the process writes its copy over the document, whatever has
\* been written since it read; log lines are appended to the files as they are
SaveState(p) ==
  /\ Len(loaded[p]) = 1
  /\ \E r \in {RunCall(loaded[p][1].w, loaded[p][1].call, now)} :
       \E from \in {loaded[p][1].w} :
        /\ Len(audit) + Len(Appended(from.audit, r.w.audit)) <= MaxRaceAudit
        /\ IF r.w = from
           THEN UNCHANGED <<doc, files>>
           ELSE /\ entities' = r.w.entities
                /\ pending_confirmations' = r.w.pending_confirmations
                /\ tentative_observations' = r.w.tentative_observations
                /\ processed_event_ids' = r.w.processed_event_ids
                /\ learning_stats' = r.w.learning_stats
                /\ runtime' = r.w.runtime
                /\ domains' = r.w.domains
                /\ last_consistency_check' = r.w.last_consistency_check
                /\ audit' = audit \o Appended(from.audit, r.w.audit)
                /\ dlq' = dlq \o Appended(from.dlq, r.w.dlq)
                /\ learning_events' = learning_events \o Appended(from.learning_events, r.w.learning_events)
                /\ UNCHANGED heartbeat
        /\ last' = Called("save", p, [status |-> r.status, call |-> loaded[p][1].call,
                                      prompt_id |-> r.prompt_id])
  /\ loaded' = [loaded EXCEPT ![p] = <<>>]
  /\ UNCHANGED <<now, nextUuid, review, session, outbox, dispatched, decisions>>

NextRace ==
  \/ \E p \in Procs : \E call \in CallsOf(p) : LoadState(p, call)
  \/ \E p \in Procs : SaveState(p)

SpecRace == Init /\ [][NextRace]_vars

\* ---- observations, confirmations and promotions beyond the id cap ----
NextOrigin ==
  \/ \E i \in StreamInputs : IngestStream(i.observation, i.force_commit)
  \/ \E c \in Confirmations : ApplyConfirmation(c)
  \/ \E options \in ReviewOptions : PromoteReviewQueue(options)

SpecOrigin == Init /\ [][NextOrigin]_vars

\* ---- the review queue ----
\* observations that are fresh whenever they are ingested: below the ask
\* threshold at 0.408 and 0.54, below min_confidence at 0.338, and in the ask
\* band at 0.75; the last event is about another entity
PromoteProfiles(n) ==
  { [type |-> "conversation_planning", intent |-> "assertive"] }
  \cup (IF n = 1 THEN { [type |-> "static_markdown", intent |-> "historical"] }
        ELSE { [type |-> "conversation_planning", intent |-> "planning"] })
  \cup (IF n = 2 THEN { [type |-> "conversation_planning", intent |-> "hypothetical"] }
        ELSE {})

PromoteObservations ==
  UNION { { [Observation(<<"evt", n>>,
                         IF n = MaxEvents THEN "team:core" ELSE "user:primary",
                         "Tahoe", p) EXCEPT !.event_ts = HoursPerTick] :
              p \in PromoteProfiles(n) } : n \in 1..MaxEvents }

\* the defaults, one promotion per call, one entity under a cap of one
\* pending prompt, and a higher min_confidence
PromoteOptions ==
  { [entity_id |-> "", domain |-> "", min_confidence |-> Absent, limit |-> Absent,
     max_pending |-> Absent],
    [entity_id |-> "", domain |-> "", min_confidence |-> Absent, limit |-> 1,
     max_pending |-> Absent],
    [entity_id |-> "user:primary", domain |-> "", min_confidence |-> Absent,
     limit |-> Absent, max_pending |-> 1],
    [entity_id |-> "", domain |-> "", min_confidence |-> 500, limit |-> Absent,
     max_pending |-> Absent] }

IngestTentative(o) ==
  LET r == ingestObservation(W, o, FALSE, now)
  IN /\ WithinBounds(r.w, MaxPromoteAudit)
     /\ Store(r.w)
     /\ UNCHANGED chat
     /\ last' = Called("ingest", o.event_id, r.result)
     /\ UNCHANGED <<heartbeat, now>>

PromoteQueue(options) ==
  LET r == promoteReviewQueue(W, options, now)
  IN /\ WithinBounds(r.w, MaxPromoteAudit)
     /\ Store(r.w)
     /\ UNCHANGED chat
     /\ last' = Called("promote_queue", options, [r.result EXCEPT !.promoted = Len(@)])
     /\ UNCHANGED <<heartbeat, now>>

\* the user rejects a pending prompt
RejectPrompt(i) ==
  LET p == pending_confirmations[i]
      r == applyUserConfirmation(W, Confirmation(p.prompt_id, p.entity_id, "reject", NoValue),
                                 now)
  IN /\ WithinBounds(r.w, MaxPromoteAudit)
     /\ Store(r.w)
     /\ UNCHANGED chat
     /\ last' = Called("confirm", p.prompt_id, r.result)
     /\ UNCHANGED <<heartbeat, now>>

NextPromote ==
  \/ \E o \in PromoteObservations : IngestTentative(o)
  \/ \E options \in PromoteOptions : PromoteQueue(options)
  \/ \E i \in 1..Len(pending_confirmations) : RejectPrompt(i)
  \/ Tick

SpecPromote == Init /\ [][NextPromote]_vars

\* ------------------------------------------------------------------------
\* Claims
\* ------------------------------------------------------------------------
IngestMutationStatuses == {"committed", "pending_confirmation", "tentative"}

\* one ingest call that passed validation has just returned
IngestReturned == last'.op = "ingest" /\ last'.result.status # "validation_failed"

\* the one mutation of a first ingest: a commit, a pending prompt or a tentative entry
OneIngestMutation ==
  /\ Len(audit') = Len(audit) + 1
  /\ last'.result.status = "committed" =>
       /\ learning_stats'.auto_commits = learning_stats.auto_commits + 1
       /\ UNCHANGED <<pending_confirmations, tentative_observations>>
  /\ last'.result.status = "pending_confirmation" =>
       /\ Len(pending_confirmations') = Len(pending_confirmations) + 1
       /\ UNCHANGED <<entities, tentative_observations, learning_stats>>
  /\ last'.result.status = "tentative" =>
       /\ tentative_observations' # tentative_observations
       /\ UNCHANGED <<entities, pending_confirmations, learning_stats>>

\* C1: for a schema-valid observation, the first ingest of its event_id returns
\* committed, pending_confirmation or tentative and makes exactly one mutation;
\* an ingest of the same event_id right after it returns duplicate and leaves the
\* canonical document and the audit log as they were.
C1_IngestIdempotent ==
  [][ IngestReturned =>
        /\ ~Includes(processed_event_ids, last'.id) =>
             /\ last'.result.status \in IngestMutationStatuses
             /\ OneIngestMutation
        /\ (last.op = "ingest" /\ last.id = last'.id /\ last.result.status # "validation_failed") =>
             /\ last'.result.status = "duplicate"
             /\ UNCHANGED <<doc, audit, dlq>> ]_vars

C1_Witness ==
  /\ last.op = "ingest"
  /\ last.result.status = "duplicate"
  /\ Len(audit) >= 1

\* margin of a fresh, schema-valid, unforced ingest input against the stored record
UnforcedFresh(i) ==
  /\ last'.op = "ingest"
  /\ last'.id = i.observation.event_id
  /\ ~i.force_commit
  /\ validateObservation(i.observation)
  /\ ~Includes(processed_event_ids, i.observation.event_id)

InputMargin(i) ==
  computeConfidence(i.observation, now) - getCurrentFieldConfidence(entities, i.observation)

InputMarginThreshold(i) == domains[i.observation.domain].margin_threshold

\* C4 (as stated): without force, an observation whose margin is exactly equal to
\* the domain's margin_threshold is never auto-committed.
C4_TieNeverAutoCommits ==
  [][ \A i \in IngestInputs :
        (UnforcedFresh(i) /\ InputMargin(i) = InputMarginThreshold(i)
           /\ Ingest(i.observation, i.force_commit))
        => last'.result.status # "committed" ]_vars

\* C4 (amended): without force, an observation whose margin is strictly below the
\* domain's margin_threshold is never auto-committed, and one whose margin is
\* exactly the threshold is auto-committed when its confidence reaches
\* auto_threshold.
C4_TieAutoCommits ==
  [][ \A i \in IngestInputs :
        (UnforcedFresh(i) /\ Ingest(i.observation, i.force_commit)) =>
          /\ InputMargin(i) < InputMarginThreshold(i) => last'.result.status # "committed"
          /\ (/\ InputMargin(i) = InputMarginThreshold(i)
              /\ computeConfidence(i.observation, now)
                   >= domains[i.observation.domain].auto_threshold)
             => last'.result.status = "committed" ]_vars

\* a commit at a margin of exactly margin_threshold: the last two audit lines are
\* commits to the same field whose confidences differ by the threshold
C4_Witness ==
  /\ last.op = "ingest"
  /\ last.result.status = "committed"
  /\ Len(audit) >= 2
  /\ LET cur == audit[Len(audit)]
         prev == audit[Len(audit) - 1]
     IN /\ cur.kind = "decision=auto_commit"
        /\ prev.kind = "decision=auto_commit"
        /\ prev.value # stringifyValue(NULL)
        /\ cur.entity_id = prev.entity_id /\ cur.path = prev.path
        /\ cur.event_id = last.id
        /\ cur.source # "conversation_planning"
        /\ cur.confidence - prev.confidence = domains[cur.path[1]].margin_threshold

\* C2: whenever ingest or apply_confirmation returns validation_failed, one DLQ
\* entry has been written and entities, pending_confirmations,
\* tentative_observations, processed_event_ids and learning_stats are exactly as
\* they were before the call.
C2_ValidationFailedLeavesDocument ==
  [][ (last'.op \in {"ingest", "confirm"} /\ last'.result.status = "validation_failed") =>
        /\ Len(dlq') = Len(dlq) + 1
        /\ UNCHANGED <<entities, pending_confirmations, tentative_observations,
                       processed_event_ids, learning_stats>> ]_vars

\* C3: in every reachable state, the event_id of every committed record is in
\* processed_event_ids.
C3_CommittedIdsProcessed ==
  \A e \in DOMAIN entities : \A d \in DOMAIN entities[e] : \A k \in DOMAIN entities[e][d] :
    Includes(processed_event_ids, entities[e][d][k].event_id)

\* the value a field holds, NoValue when the store has no record for it
FieldValue(ents, o) ==
  IF HasRecord(ents, o.entity_id, o.domain, fieldKeyFromObservation(o))
  THEN ents[o.entity_id][o.domain][fieldKeyFromObservation(o)].value
  ELSE NoValue

ConfirmOf(p) == Confirmation(p.prompt_id, p.entity_id, "confirm", NoValue)

\* C5: confirming a pending prompt leaves the prompt's field with the value (or
\* the absence of a value) that a direct auto-commit of the prompt's observation
\* would leave.
C5_ConfirmEqualsAutoCommit ==
  [][ \A i \in 1..Len(pending_confirmations) :
        LET p == pending_confirmations[i]
            o == p.observation_event
        IN (/\ last'.op = "confirm"
            /\ last'.id = p.prompt_id
            /\ last'.result.status = "committed"
            /\ ApplyConfirmation(ConfirmOf(p)))
           => FieldValue(entities', o)
                = FieldValue(applyCommittedObservation(entities, o, p.confidence), o) ]_vars

\* the pending prompts an option set's entity/domain filter counts
FilteredPending(pend, options) ==
  Cardinality({i \in 1..Len(pend) :
                 /\ options.entity_id = "" \/ pend[i].entity_id = options.entity_id
                 /\ options.domain = "" \/ pend[i].domain = options.domain})

PromoteReturned(options) ==
  /\ last'.op = "promote"
  /\ PromoteReviewQueue(options)

\* C6 (as stated): after promote_review_queue returns, the number of pending
\* prompts in the store is at most max_pending.
C6_PendingAtMostMax ==
  [][ last'.op = "promote" => Len(pending_confirmations') <= last'.result.max_pending ]_vars

\* C6 (amended): promote_review_queue never raises the number of pending prompts
\* that match its entity/domain filter above max_pending: after the call that
\* number is at most the larger of max_pending and what it was before; when the
\* filtered count has already reached max_pending nothing is promoted, the store
\* keeps its prompts, and the result carries promoted_count = 0 and
\* reason = pending_limit_reached.
C6_PromotionRespectsCap ==
  [][ \A options \in ReviewOptions :
        PromoteReturned(options) =>
          LET before == FilteredPending(pending_confirmations, options)
              after == FilteredPending(pending_confirmations', options)
              cap == last'.result.max_pending
          IN /\ after <= Max(cap, before)
             /\ after = before + last'.result.promoted_count
             /\ before >= cap =>
                  /\ last'.result.promoted_count = 0
                  /\ last'.result.reason = "pending_limit_reached"
                  /\ UNCHANGED <<pending_confirmations, tentative_observations, audit>>
             /\ before < cap => last'.result.reason # "pending_limit_reached" ]_vars

\* a promotion that filled the last free slot under an explicit cap
C6_Witness ==
  /\ last.op = "promote"
  /\ last.result.promoted_count >= 1
  /\ last.result.max_pending = 1
  /\ Len(pending_confirmations) = last.result.max_pending
  /\ \E i \in 1..Len(tentative_observations) :
       /\ tentative_observations[i].promoted_at # NoTs
       /\ tentative_observations[i].prompt_id \in PendingPromptIds

\* the same signal has just been ingested twice in a row, the first time past validation
RepolledSignal ==
  /\ last.op = "ingest_signal"
  /\ last'.op = "ingest_signal"
  /\ last.result.status = "ok"
  /\ last'.id = last.id

\* C10 (as stated): for any signal S, the second of two successive
\* ingest_signal(S) calls reports duplicate = |S.items| and changes no committed
\* record, pending prompt or tentative entry.
C10_RepollIsNoOp ==
  [][ RepolledSignal =>
        /\ last'.result.summary["duplicate"] = Len(last'.id.items)
        /\ UNCHANGED <<entities, pending_confirmations, tentative_observations>> ]_vars

\* the second of two successive ingest_signal(S) calls made from the current state
Repoll(signal) ==
  LET first == ingestSignalEvent(W, signal, FALSE, now)
  IN [first |-> first, second |-> ingestSignalEvent(first.w, signal, FALSE, now)]

\* C10 (amended): for any schema-valid signal S ingested while
\* processed_event_ids has room for |S.items| more ids, so that the first call
\* evicts none, the second of two successive ingest_signal(S) calls reports
\* duplicate = |S.items| and no other status, and changes neither the canonical
\* document nor the audit log nor the DLQ.
C10_RepollWithRoomIsNoOp ==
  \A signal \in Signals :
    (/\ validateSignal(signal)
     /\ Len(processed_event_ids) + Len(signal.items) <= MAX_PROCESSED_EVENT_IDS)
    => LET r == Repoll(signal)
       IN /\ r.second.summary["duplicate"] = Len(signal.items)
          /\ \A st \in STATUS_COUNTERS \ {"duplicate"} : r.second.summary[st] = 0
          /\ r.second.w = r.first.w

\* a re-poll of a signal of two items with different event ids: both are duplicates
C10_Witness ==
  /\ last.op = "ingest_signal"
  /\ Len(last.id.items) = 2
  /\ last.result.summary["duplicate"] = 2
  /\ Len(processed_event_ids) = 2
  /\ Len(audit) >= 2

\* C7: two projection runs in a row with the same options and nothing in between
\* leave the artifact byte-identical after the second run, and the second run
\* appends no audit line.
C7_ProjectionIdempotent ==
  [][ (last.op = "project" /\ last'.op = "project" /\ last'.id = last.id) =>
        /\ heartbeat' = heartbeat
        /\ audit' = audit ]_vars

\* position i of the text lies between the markers of a managed zone
InManagedZone(text, i) ==
  \E zoneId \in {canonicalZoneId, changesZoneId} :
    LET startIdx == IndexOf(text, zoneMarkers(zoneId).start)
        endIdx == IndexOf(text, zoneMarkers(zoneId).end)
    IN startIdx # 0 /\ startIdx < i /\ i < endIdx

\* the human-authored lines of the text outside the managed zones, in order
RECURSIVE HumanTextOutsideZones(_, _)
HumanTextOutsideZones(text, n) ==
  IF n = 0 THEN <<>>
  ELSE HumanTextOutsideZones(text, n - 1)
         \o (IF text[n][1] = "human" /\ ~InManagedZone(text, n) THEN <<text[n]>> ELSE <<>>)

\* C8: a projection run leaves every human-authored line outside the managed
\* zones (before, between or after them) in the artifact.
C8_HumanTextKept ==
  [][ last'.op = "project" =>
        LET before == readTextIfExists(heartbeat, DefaultHeartbeat)
        IN HumanTextOutsideZones(heartbeat', Len(heartbeat'))
             = HumanTextOutsideZones(before, Len(before)) ]_vars

DriftLogged(heading) ==
  \E i \in (Len(audit) + 1)..Len(audit') :
    audit'[i].kind = "drift_detected" /\ audit'[i].path = <<heading>>

\* the zone's body in the file is neither what the previous projection wrote
\* (the text whose hash was persisted) nor what this projection writes
ZoneEdited(heading, zoneId, nextBody) ==
  LET before == readTextIfExists(heartbeat, DefaultHeartbeat)
      existing == captureSectionBody(before, heading, zoneId).body
      persisted == runtime.projection_hashes[heading]
  IN /\ persisted # NoHash
     /\ existing # trimEnd(persisted[2])
     /\ existing # trimEnd(nextBody)

\* C9: a projection run appends a drift_detected line for a zone exactly when the
\* zone's body in the file differs both from the body the previous projection
\* wrote and from the newly rendered body, and the zone then holds the new body.
C9_DriftExactlyWhenEdited ==
  [][ \A options \in ProjectionOptions :
        (last'.op = "project" /\ last'.id = options) =>
          LET nextCanonical == buildCanonicalStateSection(W, options.entity_id)
              nextChanges == buildStateChangeLogSection(W)
          IN /\ DriftLogged(canonicalHeading)
                  <=> ZoneEdited(canonicalHeading, canonicalZoneId, nextCanonical)
             /\ DriftLogged(changesHeading)
                  <=> ZoneEdited(changesHeading, changesZoneId, nextChanges)
             /\ captureSectionBody(heartbeat', canonicalHeading, canonicalZoneId).body
                  = trimEnd(nextCanonical)
             /\ captureSectionBody(heartbeat', changesHeading, changesZoneId).body
                  = trimEnd(nextChanges) ]_vars

\* ------------------------------------------------------------------------
\* DLQ retry (C11, C12, C13)
\* ------------------------------------------------------------------------
\* the folded entry of a dlq_id
DlqEntry(lines, id) ==
  LET entries == loadDlqState(lines)
  IN entries[CHOOSE i \in 1..Len(entries) : entries[i].dlq_id = id]

DlqIds(lines) == {lines[i].dlq_id : i \in 1..Len(lines)}

RetryReturned == last'.op = "retry_dlq" /\ \E options \in RetryOptions : RetryDlq(options)

PermanentResults == {"unsupported_schema", "not_found", "mismatch"}

\* 60 s, 5 min, 30 min, 2 h
BackoffMs == <<60 * 1000, 5 * 60 * 1000, 30 * 60 * 1000, 2 * 60 * 60 * 1000>>

\* Math.max(1, Number(options.max_retries || DLQ_DEFAULT_MAX_RETRIES))
MaxRetriesOf(options) ==
  Max(1, IF options.max_retries \in {Absent, 0} THEN 5 ELSE options.max_retries)

\* C11 as stated: every retry that does not resolve its entry raises the
\* entry's retry_count by exactly 1 and sets its next_retry_ts to
\* now + backoff[min(retry_count, 3)], backoff = [60 s, 5 min, 30 min, 2 h].
C11_EveryFailedRetryBacksOff ==
  [][ RetryReturned =>
        \A k \in 1..Len(last'.result.items) :
          LET item == last'.result.items[k]
              before == DlqEntry(dlq, item.dlq_id)
              after == DlqEntry(dlq', item.dlq_id)
          IN item.final_status # "resolved" =>
               /\ after.retry_count = before.retry_count + 1
               /\ after.next_retry_ts.base = now
               /\ after.next_retry_ts.wait_ms = BackoffMs[Min(after.retry_count, 3) + 1] ]_vars

\* C11 (amended): a retry run raises the retry_count of every entry it retried
\* without resolving it by exactly 1; an entry that is left pending_retry (the
\* result is not a permanent failure and retry_count is below max_retries)
\* gets next_retry_ts = now + backoff[min(retry_count, 3)] for its new
\* retry_count, and an entry that becomes failed_permanent keeps the
\* next_retry_ts it had.
C11_FailedRetryBacksOff ==
  [][ RetryReturned =>
        \A k \in 1..Len(last'.result.items) :
          LET item == last'.result.items[k]
              before == DlqEntry(dlq, item.dlq_id)
              after == DlqEntry(dlq', item.dlq_id)
          IN /\ before.status = "pending_retry"
             /\ item.final_status # "resolved" =>
                   /\ after.retry_count = before.retry_count + 1
                   /\ item.retry_count = after.retry_count
             /\ item.final_status = "pending_retry" =>
                   /\ after.status = "pending_retry"
                   /\ item.result_status \notin PermanentResults
                   /\ after.retry_count < MaxRetriesOf(last'.id)
                   /\ after.next_retry_ts.base = now
                   /\ after.next_retry_ts.wait_ms = BackoffMs[Min(after.retry_count, 3) + 1]
             /\ item.final_status = "failed_permanent" =>
                   after.next_retry_ts = before.next_retry_ts ]_vars

\* a fourth retry has failed and reuses the last interval
C11_Witness ==
  /\ last.op = "retry_dlq"
  /\ \E k \in 1..Len(last.result.items) :
        /\ last.result.items[k].final_status = "pending_retry"
        /\ last.result.items[k].result_status = "validation_failed"
        /\ last.result.items[k].retry_count = 4
        /\ DlqEntry(dlq, last.result.items[k].dlq_id).next_retry_ts.wait_ms = BackoffMs[4]

TerminalDlqStatuses == {"failed_permanent", "resolved"}

\* a terminal entry stays as it is, and a retry run dispatches pending_retry
\* entries only
TerminalEntriesStay ==
  /\ LET before == loadDlqState(dlq)
         after == loadDlqState(dlq')
     IN \A i \in 1..Len(before) :
          before[i].status \in TerminalDlqStatuses => after[i] = before[i]
  /\ RetryReturned =>
        \A k \in 1..Len(last'.result.items) :
          DlqEntry(dlq, last'.result.items[k].dlq_id).status = "pending_retry"

\* C12 as stated: a retry that returns unsupported_schema, not_found or
\* mismatch, or that brings retry_count to max_retries, leaves the entry
\* failed_permanent, and no later run dispatches a failed_permanent or resolved
\* entry.
C12_MaxRetriesIsPermanent ==
  [][ /\ TerminalEntriesStay
      /\ RetryReturned =>
            \A k \in 1..Len(last'.result.items) :
              LET item == last'.result.items[k] IN
              (\/ item.result_status \in PermanentResults
               \/ item.retry_count >= MaxRetriesOf(last'.id)) =>
                 DlqEntry(dlq', item.dlq_id).status = "failed_permanent" ]_vars

\* C12 (amended): a retry that returns unsupported_schema, not_found or
\* mismatch, or that fails and brings retry_count to max_retries, leaves the
\* entry failed_permanent (a retry that succeeds leaves it resolved, whatever
\* its retry_count); a failed_permanent or resolved entry never changes again
\* and no later run dispatches it.
C12_PermanentFailuresStay ==
  [][ /\ TerminalEntriesStay
      /\ RetryReturned =>
            \A k \in 1..Len(last'.result.items) :
              LET item == last'.result.items[k]
                  resolved == item.final_status = "resolved"
                  after == DlqEntry(dlq', item.dlq_id)
              IN /\ resolved => after.status = "resolved"
                 /\ item.result_status \in PermanentResults =>
                       after.status = "failed_permanent"
                 /\ (~resolved /\ item.retry_count >= MaxRetriesOf(last'.id)) =>
                       after.status = "failed_permanent" ]_vars

\* a run skips an entry that an earlier run has left failed_permanent after
\* not_found, while it retries another one that fails for good at max_retries
C12_Witness ==
  /\ last.op = "retry_dlq"
  /\ \E id \in DlqIds(dlq) :
        /\ DlqEntry(dlq, id).status = "failed_permanent"
        /\ DlqEntry(dlq, id).last_result_status = "not_found"
        /\ \A k \in 1..Len(last.result.items) : last.result.items[k].dlq_id # id
  /\ \E k \in 1..Len(last.result.items) :
        /\ last.result.items[k].result_status = "validation_failed"
        /\ last.result.items[k].final_status = "failed_permanent"

\* C13: a retry run adds no DLQ entry; the number of entries folded by dlq_id
\* is the same after the run as before it.
C13_RetryAddsNoEntry ==
  [][ RetryReturned => Len(loadDlqState(dlq')) = Len(loadDlqState(dlq)) ]_vars

\* ------------------------------------------------------------------------
\* Out-of-order observations (C14)
\* ------------------------------------------------------------------------
\* C14: an ingest without force_commit of an observation whose event_ts is
\* older than the last_update of the committed record of its field leaves that
\* record as it is: the record is neither replaced nor deleted.
C14_OlderObservationKeepsRecord ==
  [][ \A i \in OrderInputs :
        LET o == i.observation
            k == fieldKeyFromObservation(o)
        IN (/\ last'.op = "ingest"
            /\ last'.id = o.event_id
            /\ ~i.force_commit
            /\ HasRecord(entities, o.entity_id, o.domain, k)
            /\ o.event_ts < entities[o.entity_id][o.domain][k].last_update
            /\ Ingest(o, FALSE))
           => /\ HasRecord(entities', o.entity_id, o.domain, k)
              /\ entities'[o.entity_id][o.domain][k] = entities[o.entity_id][o.domain][k] ]_vars

\* ------------------------------------------------------------------------
\* Threshold learner (C15)
\* ------------------------------------------------------------------------
\* C15: after a learner run, every domain whose thresholds the run has changed
\* has ask_threshold <= auto_threshold - 0.08, ask_threshold in [0.55, 0.80]
\* and auto_threshold in [0.80, 0.99].
C15_LearnedThresholdsInBounds ==
  [][ last'.op = "learn" =>
        \A d \in VALID_DOMAINS :
          domains'[d] # domains[d] =>
            /\ domains'[d].ask_threshold <= domains'[d].auto_threshold - 80
            /\ domains'[d].ask_threshold >= 550 /\ domains'[d].ask_threshold <= 800
            /\ domains'[d].auto_threshold >= 800 /\ domains'[d].auto_threshold <= 990 ]_vars

\* a run in apply mode has moved the thresholds of travel to their upper bounds
C15_Witness ==
  /\ last.op = "learn"
  /\ last.result.domains_updated > 0
  /\ domains["travel"].ask_threshold = 800
  /\ domains["travel"].auto_threshold = 990

\* ------------------------------------------------------------------------
\* Caps of the de-duplication list and of the tentative list (C16)
\* ------------------------------------------------------------------------
\* the list after one more element under a cap: the oldest goes when it is full
PushedUnderCap(list, element, cap) ==
  IF Len(list) = cap THEN Append(Tail(list), element) ELSE Append(list, element)

\* C16: processed_event_ids never holds more than its cap and
\* tentative_observations never more than its cap (5000 and 1000 in the program);
\* an ingest of an event id that is not in the list is never a duplicate and
\* appends the id, evicting the oldest id first when the list is full, and a
\* tentative ingest appends its entry in the same way.
C16_CapsEvictOldestFirst ==
  [][ /\ Len(processed_event_ids') <= MAX_PROCESSED_EVENT_IDS
      /\ Len(tentative_observations') <= MAX_TENTATIVE_OBSERVATIONS
      /\ (IngestReturned /\ ~Includes(processed_event_ids, last'.id)) =>
           /\ last'.result.status # "duplicate"
           /\ processed_event_ids' =
                PushedUnderCap(processed_event_ids, last'.id, MAX_PROCESSED_EVENT_IDS)
           /\ last'.result.status = "tentative" =>
                /\ Len(tentative_observations') >= 1
                /\ tentative_observations' =
                     PushedUnderCap(tentative_observations,
                                    tentative_observations'[Len(tentative_observations')],
                                    MAX_TENTATIVE_OBSERVATIONS)
                /\ tentative_observations'[Len(tentative_observations')].event_id = last'.id
    ]_vars

\* an event id that was processed before and has been evicted since is ingested
\* again and handled as new, while both lists are full
C16_Witness ==
  /\ last.op = "ingest"
  /\ last.result.status = "tentative"
  /\ Len(processed_event_ids) = MAX_PROCESSED_EVENT_IDS
  /\ Len(tentative_observations) = MAX_TENTATIVE_OBSERVATIONS
  /\ Len(audit) > MAX_TENTATIVE_OBSERVATIONS + 1
  /\ \A i \in 1..Len(audit) : audit[i].kind = "decision=tentative_reject"
  /\ audit[Len(audit)].event_id = last.id
  /\ \E i \in 1..(Len(audit) - 1) : audit[i].event_id = last.id

\* ------------------------------------------------------------------------
\* Retraction (C17)
\* ------------------------------------------------------------------------
\* C17: when a retraction (intent = retract, candidate_value = null) of a field
\* that holds a committed record is committed, the field is left as in a store
\* where it was never committed: the record is gone, its domain state holds
\* exactly the other fields it held, and the field has no current confidence.
C17_RetractUndoesCommit ==
  [][ \A i \in OrderInputs :
        LET o == i.observation
            key == fieldKeyFromObservation(o)
        IN (/\ last'.op = "ingest" /\ last'.id = o.event_id
            /\ last'.result.status = "committed"
            /\ o.intent = "retract" /\ o.candidate_value = NULL
            /\ HasRecord(entities, o.entity_id, o.domain, key)
            /\ Ingest(o, i.force_commit))
           => /\ ~HasRecord(entities', o.entity_id, o.domain, key)
              /\ entities'[o.entity_id][o.domain] = Del(entities[o.entity_id][o.domain], key)
              /\ getCurrentFieldConfidence(entities', o) = 0
              /\ FieldValue(entities', o) = NoValue ]_vars

\* travel.status was committed with a value and a committed retraction has
\* removed it again
C17_Witness ==
  /\ last.op = "ingest"
  /\ last.result.status = "committed"
  /\ Len(audit) >= 2
  /\ audit[Len(audit)].kind = "decision=auto_commit"
  /\ audit[Len(audit)].value = stringifyValue(NULL)
  /\ \E n \in 1..(Len(audit) - 1) :
        /\ audit[n].kind = "decision=auto_commit"
        /\ audit[n].value = "Tahoe"
        /\ audit[n].path = audit[Len(audit)].path
        /\ \A k \in (n + 1)..(Len(audit) - 1) : audit[k].kind # "decision=auto_commit"
  /\ "user:primary" \in DOMAIN entities
  /\ entities["user:primary"]["travel"] = EmptyObj

\* ------------------------------------------------------------------------
\* Provenance of a confirmed commit (C18)
\* ------------------------------------------------------------------------
\* C18: when a confirmation with action = confirm resolves a pending prompt, the
\* observation that is committed carries a new event_id, distinct from the
\* event_id of the prompt's observation_event and from every processed id, and
\* source.type = user_confirmation: the record it writes has that event_id,
\* that source and the confidence of a user_confirmation observation.
C18_ConfirmCommitsAsUserConfirmation ==
  [][ \A i \in 1..Len(pending_confirmations) :
        LET p == pending_confirmations[i]
            o == p.observation_event
            key == fieldKeyFromObservation(o)
        IN (/\ last'.op = "confirm"
            /\ last'.id = p.prompt_id
            /\ last'.result.status = "committed"
            /\ ApplyConfirmation(ConfirmOf(p)))
           => /\ last'.result.event_id # o.event_id
              /\ ~Includes(processed_event_ids, last'.result.event_id)
              /\ \A k \in 1..Len(pending_confirmations) :
                    pending_confirmations[k].observation_event.event_id # last'.result.event_id
              /\ o.candidate_value # NULL =>
                   /\ HasRecord(entities', o.entity_id, o.domain, key)
                   /\ entities'[o.entity_id][o.domain][key].source = "user_confirmation"
                   /\ entities'[o.entity_id][o.domain][key].event_id = last'.result.event_id
                   /\ entities'[o.entity_id][o.domain][key].value = o.candidate_value
                   /\ entities'[o.entity_id][o.domain][key].confidence =
                        computeConfidence(
                          [o EXCEPT !.source = [type |-> "user_confirmation", ref |-> InputRef],
                                    !.intent = "assertive", !.event_ts = now], now) ]_vars

\* a confirm has replaced a record that an ingest had committed by one that
\* carries the confirmation's provenance
C18_Witness ==
  /\ last.op = "confirm"
  /\ last.result.status = "committed"
  /\ Len(audit) >= 3
  /\ audit[1].kind = "decision=auto_commit"
  /\ audit[1].value = "Tahoe"
  /\ audit[Len(audit)].kind = "action=confirm"
  /\ audit[Len(audit)].entity_id = audit[1].entity_id
  /\ \E e \in VALID_ENTITY_IDS :
        /\ audit[1].entity_id = e
        /\ HasRecord(entities, e, "travel", <<"status">>)
        /\ entities[e]["travel"][<<"status">>].source = "user_confirmation"
        /\ entities[e]["travel"][<<"status">>].event_id = last.result.event_id

\* ------------------------------------------------------------------------
\* Below the ask threshold (C19)
\* ------------------------------------------------------------------------
\* a fresh, schema-valid input whose confidence is below its domain's
\* ask_threshold has just been ingested
BelowAskIngested(i) ==
  /\ last'.op = "ingest"
  /\ last'.id = i.observation.event_id
  /\ validateObservation(i.observation)
  /\ ~Includes(processed_event_ids, i.observation.event_id)
  /\ computeConfidence(i.observation, now) < domains[i.observation.domain].ask_threshold
  /\ IngestStream(i.observation, i.force_commit)

\* C19 (as stated): for every observation whose confidence is below the
\* ask_threshold of its domain the resolver returns tentative_reject and ingest
\* creates no pending prompt.
C19_BelowAskIsTentative ==
  [][ \A i \in StreamInputs :
        BelowAskIngested(i) =>
          /\ resolveDecision(entities, i.observation, computeConfidence(i.observation, now),
                             i.force_commit).decision = "tentative_reject"
          /\ last'.result.status = "tentative"
          /\ pending_confirmations' = pending_confirmations ]_vars

\* C19 (amended): an observation whose confidence is below the ask_threshold of
\* its domain never creates a pending prompt; without force_commit the resolver
\* returns tentative_reject, ingest returns tentative and no record changes;
\* with force_commit the resolver returns auto_commit and ingest commits.
C19_BelowAskNeverPrompts ==
  [][ \A i \in StreamInputs :
        BelowAskIngested(i) =>
          LET decision == resolveDecision(entities, i.observation,
                                          computeConfidence(i.observation, now),
                                          i.force_commit).decision
          IN /\ pending_confirmations' = pending_confirmations
             /\ ~i.force_commit =>
                  /\ decision = "tentative_reject"
                  /\ last'.result.status = "tentative"
                  /\ entities' = entities
             /\ i.force_commit =>
                  /\ decision = "auto_commit"
                  /\ last'.result.status = "committed" ]_vars

\* an unforced observation below the ask threshold has been parked as tentative
\* while a prompt of an earlier observation stays pending
C19_Witness ==
  /\ last.op = "ingest"
  /\ last.result.status = "tentative"
  /\ Len(pending_confirmations) = 1
  /\ Len(tentative_observations) >= 1
  /\ tentative_observations[Len(tentative_observations)].event_id = last.id
  /\ tentative_observations[Len(tentative_observations)].confidence
       < domains["travel"].ask_threshold

\* ------------------------------------------------------------------------
\* Confirmations that name no pending prompt, or a foreign one (C20)
\* ------------------------------------------------------------------------
\* C20: apply_confirmation on a schema-valid confirmation whose prompt_id is not
\* pending returns not_found, and on one whose entity_id or domain differs from
\* the stored prompt returns mismatch; in both cases the document and every
\* sibling file are unchanged and the prompt, if it exists, stays pending.
C20_NotFoundAndMismatchChangeNothing ==
  [][ \A c \in Confirmations :
        LET idx == PendingIndex(pending_confirmations, c.prompt_id)
            foreign == /\ idx # 0
                       /\ \/ pending_confirmations[idx].entity_id # c.entity_id
                          \/ pending_confirmations[idx].domain # c.domain
        IN (/\ last'.op = "confirm"
            /\ last'.id = c.prompt_id
            /\ validateConfirmation(c)
            /\ idx = 0 \/ foreign
            /\ ApplyConfirmation(c))
           => /\ last'.result.status = IF idx = 0 THEN "not_found" ELSE "mismatch"
              /\ UNCHANGED <<doc, files, nextUuid>>
              /\ idx # 0 => PendingIndex(pending_confirmations', c.prompt_id) = idx ]_vars

\* a confirmation for the wrong entity or domain has been turned away while
\* its prompt is pending
C20_Witness ==
  /\ last.op = "confirm"
  /\ last.result.status = "mismatch"
  /\ PendingIndex(pending_confirmations, last.id) # 0

\* ------------------------------------------------------------------------
\* The /state-confirm command (C21)
\* ------------------------------------------------------------------------
\* the reference is a prefix of the text of two or more pending prompt ids
AmbiguousRef(promptRef) ==
  /\ promptRef # <<>>
  /\ Cardinality({ i \in 1..Len(pending_confirmations) :
                     StartsWith(UuidText(pending_confirmations[i].prompt_id), promptRef) }) >= 2

\* C21: a /state-confirm command whose prompt reference is a prefix of two or
\* more pending prompt ids answers with the ambiguity error and resolves no
\* prompt: it shows none, applies no decision, and leaves the canonical
\* document, its sibling files and the review state as they were.
C21_AmbiguousRefResolvesNothing ==
  [][ (last'.op = "state_confirm" /\ AmbiguousRef(parseControlArgs(last'.id).promptRef))
      => /\ last'.result.kind = "Prompt reference is ambiguous"
         /\ last'.result.shown = NoPrompt
         /\ last'.result.about = NoPrompt
         /\ UNCHANGED <<doc, files, review, dispatched, decisions>> ]_vars

\* a confirm by an eight-character reference shared by two pending prompts
\* was answered with the ambiguity error
C21_Witness ==
  /\ last.op = "state_confirm"
  /\ parseControlArgs(last.id).action = "confirm"
  /\ Len(parseControlArgs(last.id).promptRef) = MIN_REF_LENGTH
  /\ AmbiguousRef(parseControlArgs(last.id).promptRef)
  /\ last.result.kind = "Prompt reference is ambiguous"

\* ------------------------------------------------------------------------
\* The confirmation loop (C22 .. C28)
\* ------------------------------------------------------------------------
\* a run of the worker in which no chat send failed has just returned
TickedClean == last'.op = "sync_review" /\ last'.id = 0

\* the pending prompts of the worker's entity, oldest first
WorkerPending == getPendingConfirmations(W, WORKER_ENTITY_ID)

\* the user messages the worker has not read yet
Unread == parseNewUserMessages(session, review.session_cursor).messages

FieldRecord(ents, o) == ents[o.entity_id][o.domain][fieldKeyFromObservation(o)]

PromptMessage(promptId) == Sent("worker", Reply("prompt", promptId, NoPrompt))

\* C22: the happy path of the confirmation loop.  With one prompt pending and
\* no active prompt, a tick dispatches the prompt, names it in active_prompt_id
\* and moves session_cursor to the end of the session; a tick that finds the
\* user's "yes" for the active prompt applies confirm (the record is
\* committed as a user confirmation, the prompt is gone, active_prompt_id is
\* cleared) and acknowledges it; a tick that finds no active prompt and
\* nothing pending dispatches nothing and changes no state.
C22_HappyPath ==
  [][ /\ (TickedClean /\ review.active_prompt_id = NoPrompt /\ Len(WorkerPending) = 1)
         => /\ last'.result.dispatched_prompt_id = WorkerPending[1].prompt_id
            /\ review'.active_prompt_id = WorkerPending[1].prompt_id
            /\ review'.session_cursor = Len(session)
            /\ outbox' = <<PromptMessage(WorkerPending[1].prompt_id)>>
            /\ UNCHANGED <<doc, files>>
      /\ (/\ TickedClean
          /\ Len(WorkerPending) = 1
          /\ review.active_prompt_id = WorkerPending[1].prompt_id
          /\ Unread = << <<Word("yes")>> >>)
         => /\ pending_confirmations' = <<>>
            /\ review'.active_prompt_id = NoPrompt
            /\ review'.session_cursor = Len(session)
            /\ FieldValue(entities', WorkerPending[1].observation_event) = "Tahoe"
            /\ FieldRecord(entities', WorkerPending[1].observation_event).source
                 = "user_confirmation"
            /\ decisions' = Append(decisions, Decided("worker", review.active_prompt_id,
                                                       Len(session)))
            /\ Len(outbox') = 2 /\ outbox'[1].kind = "ack"
            /\ last'.result.dispatched_prompt_id = NoPrompt
      /\ (TickedClean /\ review.active_prompt_id = NoPrompt /\ Len(WorkerPending) = 0)
         => /\ last'.result.dispatched_prompt_id = NoPrompt
            /\ review'.active_prompt_id = NoPrompt
            /\ outbox' = <<>>
            /\ UNCHANGED <<doc, files>> ]_vars

\* the three ticks in a row: the prompt was dispatched by the worker, the
\* user's first message confirmed it, and the last tick found nothing to do
C22_Witness ==
  /\ last.op = "sync_review" /\ last.result.status = "ok"
  /\ outbox = <<>>
  /\ pending_confirmations = <<>>
  /\ review.active_prompt_id = NoPrompt
  /\ review.last_decision_at # NoTs
  /\ session = << <<Word("yes")>> >>
  /\ \E d \in dispatched : d.by = "worker" /\ decisions = <<Decided("worker", d.prompt_id, 1)>>

\* the active prompt is no longer pending
StaleActive ==
  /\ review.active_prompt_id # NoPrompt
  /\ PendingIndex(pending_confirmations, review.active_prompt_id) = 0

\* C23: when active_prompt_id names a prompt that is no longer pending, the
\* next tick of the worker (no chat send failing) clears it, whatever the
\* unread messages of the session are, and dispatches the next pending prompt
\* if there is one.
C23_StaleActiveIsCleared ==
  [][ (TickedClean /\ StaleActive)
      => /\ review'.active_prompt_id # review.active_prompt_id
         /\ Len(WorkerPending) = 0 => review'.active_prompt_id = NoPrompt
         /\ Len(WorkerPending) > 0
              => /\ review'.active_prompt_id = WorkerPending[1].prompt_id
                 /\ last'.result.dispatched_prompt_id = WorkerPending[1].prompt_id ]_vars

\* C24: a tick in which a chat send fails returns the error and leaves the
\* canonical document, its sibling files and the worker's runtime state
\* exactly as they were before the tick.
C24_FailedSendChangesNothing ==
  [][ (last'.op = "sync_review" /\ last'.id > 0)
      => /\ last'.result.status = "error"
         /\ UNCHANGED <<doc, files, review>> ]_vars

\* the prompts that were shown in the chat and are still pending
DispatchedPending ==
  { d \in dispatched : PendingIndex(pending_confirmations, d.prompt_id) # 0 }

C26_NoReplyFromBeforeDispatch ==
  \A i \in 1..Len(decisions) :
     decisions[i].by = "worker"
       => \E d \in dispatched : d.prompt_id = decisions[i].prompt_id /\ d.at < decisions[i].reply

\* C27: one user message decides at most one prompt, whether the bridge's
\* message hook, the worker or both read it.
C27_OneReplyOnePrompt ==
  \A i, j \in 1..Len(decisions) :
     (i # j /\ decisions[i].reply # 0) => decisions[i].reply # decisions[j].reply

\* a run of the worker has just failed: a chat send failed or the confirm
\* command exited non-zero
FailedTick == last.op = "sync_review" /\ last.result.status = "error"

\* the next run of the worker, with every chat send succeeding, fails too
CleanTickFails ==
  /\ last'.op = "sync_review"
  /\ last'.id = 0
  /\ last'.result.status = "error"

\* C28: a failed tick does not block the worker forever: when the run after
\* a failed run has no failing send, it either completes or changes the
\* canonical document, the files or the review state, so that the worker
\* is not left repeating the same failing run on the same state.
C28_FailedTickRecovers ==
  [][ (FailedTick /\ CleanTickFails) => ~(UNCHANGED <<doc, files, review>>) ]_vars


\* a process has just written its copy of the document
Saved == last'.op = "save" /\ ~(UNCHANGED doc)

\* the (entity, domain, field) keys of the committed records
CommittedKeys(ents) ==
  UNION { UNION { { <<e, d, f>> : f \in DOMAIN ents[e][d] } : d \in DOMAIN ents[e] }
          : e \in DOMAIN ents }

PendingIds(pend) == { pend[i].prompt_id : i \in 1..Len(pend) }

\* C29: no update of the canonical document is lost under concurrency: when
\* a process saves, every processed event id and every committed record in
\* the document is still there, every pending prompt is still pending unless
\* the saving call resolved it, and no prompt that was resolved is pending
\* again.
C29_NoLostUpdate ==
  [][ Saved =>
        /\ \A i \in 1..Len(processed_event_ids) :
             Includes(processed_event_ids', processed_event_ids[i])
        /\ CommittedKeys(entities) \subseteq CommittedKeys(entities')
        /\ PendingIds(pending_confirmations) \ {last'.result.call.prompt_id}
             \subseteq PendingIds(pending_confirmations')
        /\ PendingIds(pending_confirmations') \ {last'.result.prompt_id}
             \subseteq PendingIds(pending_confirmations) ]_vars


\* a retry run that takes every pending_retry entry, due or not
RetriedAll == RetryReturned /\ last'.id.include_not_due /\ last'.id.limit = Absent

\* C30: every DLQ entry created by a schema failure reaches resolved or
\* failed_permanent after at most max_retries retries: a retry run that takes
\* every entry retries each pending_retry entry, which raises its retry_count
\* by one, and an entry whose retry_count has reached max_retries is
\* resolved or failed_permanent.
C30_EveryEntryReachesTerminal ==
  [][ RetriedAll =>
        \A id \in DlqIds(dlq) :
          LET before == DlqEntry(dlq, id)
              after == DlqEntry(dlq', id)
          IN before.status = "pending_retry" =>
               /\ after.retry_count = before.retry_count + 1
               /\ after.retry_count >= MaxRetriesOf(last'.id)
                    => after.status \in TerminalDlqStatuses ]_vars


AppliedStatuses == {"committed", "rejected"}

\* the status applyUserConfirmation returns to the /state-confirm command,
\* "none" when the command does not reach runConfirmFlow
CommandConfirmStatus(args) ==
  LET parsed == parseControlArgs(args)
      resolved == resolvePrompt(W, review, parsed.promptRef)
      pending == pending_confirmations[PendingIndex(pending_confirmations, resolved.promptId)]
  IN IF parsed.action \in {"invalid", "show"} \/ resolved.error # NoError THEN "none"
     ELSE applyUserConfirmation(W, flowConfirmation(pending, resolved.promptId, parsed, now),
                                now).result.status

\* the status the confirm command prints for the worker's tick, "none" when
\* the tick starts no confirm command
WorkerConfirmStatus ==
  LET parsed == parseNewUserMessages(session, review.session_cursor)
      at == IF review.active_prompt_id = NoPrompt THEN 0
            ELSE pickDecisionForActivePrompt(parsed.messages, review.active_prompt_id)
      decision == parseDecisionFromText(parsed.messages[at])
  IN IF at = 0 \/ decision.action = "edit_help" THEN "none"
     ELSE runConfirmCommand(W, review.active_prompt_id, decision, now).status

\* the status of the confirmation the step has applied or tried to apply
StepConfirmStatus ==
  IF last'.op = "state_confirm" THEN CommandConfirmStatus(last'.id)
  ELSE IF last'.op = "sync_review" THEN WorkerConfirmStatus
  ELSE "none"

SentKinds(box) == { box[i].kind : i \in 1..Len(box) }

\* the step is a /state-confirm command or a tick of the worker
Answered == last'.op \in {"state_confirm", "sync_review"}

\* C31 as stated: the acknowledgement is sent only when apply_confirmation
\* returned committed or rejected, and for any other status the reply is the
\* "Could not apply confirmation" fallback, from the worker as from the bridge.
C31_AckOrFallback ==
  [][ Answered =>
      /\ "ack" \in SentKinds(outbox') => StepConfirmStatus \in AppliedStatuses
      /\ StepConfirmStatus \notin AppliedStatuses \cup {"none"}
           => "Could not apply confirmation" \in SentKinds(outbox') ]_vars

\* C31 (amended): the acknowledgement is sent only when apply_confirmation
\* returned committed or rejected; for any other status the bridge replies
\* with the "Could not apply confirmation" fallback, and the worker sends
\* nothing and its tick ends with an error.
C31_AckOnlyWhenApplied ==
  [][ Answered =>
      /\ "ack" \in SentKinds(outbox') => StepConfirmStatus \in AppliedStatuses
      /\ StepConfirmStatus \notin AppliedStatuses \cup {"none"} =>
           IF last'.op = "state_confirm"
           THEN SentKinds(outbox') = {"Could not apply confirmation"}
           ELSE outbox' = <<>> /\ last'.result.status = "error" ]_vars

\* the bridge has answered an edit the schema rejects with the fallback, after
\* the worker had acknowledged a decision
C31_Witness ==
  /\ last.op = "state_confirm"
  /\ last.result.kind = "Could not apply confirmation"
  /\ \E i \in 1..Len(decisions) : decisions[i].by = "worker"


\* the prompts the step has resolved
ResolvedPrompts == PendingIds(pending_confirmations) \ PendingIds(pending_confirmations')

\* C32: in the inbound-message hook a natural yes / no resolves a pending
\* prompt only if that prompt is the one active_prompt_id names; it resolves
\* nothing when no prompt is active or the active prompt is no longer pending.
C32_NaturalAnswerToActiveOnly ==
  [][ last'.op = "message_received" => ResolvedPrompts \subseteq {review.active_prompt_id} ]_vars


\* C33: active_prompt_id only ever names a prompt whose text has been sent
\* to the user, by a dispatch of the worker or in a reply of the bridge.
C33_ActivePromptWasShown ==
  review.active_prompt_id # NoPrompt
    => \E d \in dispatched : d.prompt_id = review.active_prompt_id


\* the prompts the worker's tick has sent
WorkerPrompts == { outbox'[i].shown : i \in {j \in 1..Len(outbox') : outbox'[j].kind = "prompt"} }

\* the pending prompts of the worker's entity
OwnPending(pend) == { pend[i] : i \in {j \in 1..Len(pend) : pend[j].entity_id = WORKER_ENTITY_ID} }

\* C34: pending prompts are consumed in created_at ascending order: a prompt
\* the worker dispatches is a pending prompt of the entity with the smallest
\* created_at, and a tick dispatches at most one prompt, once. Every tick is
\* a new process, so the order is the one the stored fields give.
C34_OldestPromptFirst ==
  [][ last'.op = "sync_review" =>
        /\ Cardinality({j \in 1..Len(outbox') : outbox'[j].kind = "prompt"}) <= 1
        /\ \A id \in WorkerPrompts :
             \E p \in OwnPending(pending_confirmations') :
                /\ p.prompt_id = id
                /\ \A q \in OwnPending(pending_confirmations') : p.created_at <= q.created_at ]_vars

\* the worker has dispatched the older of two prompts of its entity, which
\* was created after a prompt of another entity
C34_Witness ==
  /\ last.op = "sync_review"
  /\ \E p, q \in OwnPending(pending_confirmations) :
        /\ last.result.dispatched_prompt_id = p.prompt_id
        /\ p.created_at < q.created_at
  /\ Len(pending_confirmations) > 0
  /\ pending_confirmations[1].entity_id # WORKER_ENTITY_ID


\* the reply's decision names a prompt, and the name is neither the id of
\* the active prompt nor its first characters
NamesAnotherPrompt(text, activePromptId) ==
  LET ref == parseDecisionFromText(text).promptId
  IN ref # <<>> /\ ~StartsWith(UuidText(activePromptId), ref)

\* the messages the tick reads
UnreadIndices == { i \in 1..Len(session) : i > readSessionSlice(session, review.session_cursor).first }

\* C35: a reply whose decision names a prompt id (the whole id or at least
\* 8 of its first characters) that does not match the active prompt is
\* ignored: the worker applies no decision taken from it, and a tick that
\* reads only such replies confirms, rejects and edits nothing.
C35_ReplyToAnotherPromptIgnored ==
  [][ last'.op = "sync_review" =>
        /\ \A k \in (Len(decisions) + 1)..Len(decisions') :
             ~NamesAnotherPrompt(session[decisions'[k].reply], review.active_prompt_id)
        /\ (\A i \in UnreadIndices : NamesAnotherPrompt(session[i], review.active_prompt_id))
             => UNCHANGED <<doc, files>> ]_vars

\* the worker has read a reply that names the second prompt while the first
\* prompt is active, and the first prompt is still pending and active
C35_Witness ==
  /\ last.op = "sync_review"
  /\ last.result.status = "ok"
  /\ review.active_prompt_id = randomUuid(1)
  /\ PendingIndex(pending_confirmations, randomUuid(1)) # 0
  /\ review.session_cursor = Len(session)
  /\ decisions = <<>>
  /\ \E d \in dispatched :
        /\ d.prompt_id = randomUuid(1)
        /\ d.at < Len(session)
        /\ session[Len(session)] = <<Word("confirm"), RefToken(UuidText(randomUuid(2)))>>

\* the event ids of the committed records
CommittedEventIds(ents) == { ents[k[1]][k[2]][k[3]].event_id : k \in CommittedKeys(ents) }

\* the event ids of the observations the pending prompts were created for
OriginIds(pend) == { pend[i].observation_event.event_id : i \in 1..Len(pend) }

\* C36 (as stated): in every reachable state, for every pending prompt P, no
\* committed record has an event_id equal to P.observation_event.event_id.
C36_OriginUncommitted ==
  OriginIds(pending_confirmations) \cap CommittedEventIds(entities) = {}

\* C36 (amended): while the event id of a pending prompt's observation is in
\* processed_event_ids and uncommitted, no step commits a record under it, the
\* prompt's own resolution included: a confirm or an edit commits under an
\* event id that no prompt, no record and no processed event carried before.
C36_OriginUncommittedWhileProcessed ==
  [][ /\ \A id \in OriginIds(pending_confirmations) :
           (/\ Includes(processed_event_ids, id)
            /\ id \notin CommittedEventIds(entities))
           => id \notin CommittedEventIds(entities')
      /\ (last'.op = "confirm" /\ last'.result.status = "committed") =>
           /\ last'.result.event_id \in CommittedEventIds(entities')
           /\ last'.result.event_id \notin
                OriginIds(pending_confirmations) \cup CommittedEventIds(entities)
           /\ ~Includes(processed_event_ids, last'.result.event_id) ]_vars

\* a confirmation has committed a record while the list of processed ids is
\* full and another prompt is pending
C36_Witness ==
  /\ last.op = "confirm"
  /\ last.result.status = "committed"
  /\ last.result.event_id \in CommittedEventIds(entities)
  /\ Len(pending_confirmations) >= 1
  /\ Len(processed_event_ids) = MAX_PROCESSED_EVENT_IDS

\* the proposal the run that has just ended computed for the domain from the
\* thresholds it found: the configuration it resolved is the one it stored
RunProposal(d) ==
  computeAdaptiveDomainProposal(
    domains[d],
    SelectSeq(loadLearningEvents(learning_events,
                                 runtime'.adaptive_learning.lookback_days, now),
              LAMBDA event : event.domain = d),
    runtime'.adaptive_learning)

\* next lies between current and candidate and at most step away from current
MovedToward(current, next, candidate, step) ==
  /\ next - current <= step
  /\ current - next <= step
  /\ \/ current <= next /\ next <= candidate
     \/ candidate <= next /\ next <= current

\* C37: in one learner run, each of a domain's ask_threshold and auto_threshold
\* moves toward its candidate by at most max_daily_step.
C37_StepBounded ==
  [][ (last'.op = "learn" /\ last'.result.status = "ok") =>
        \A d \in VALID_DOMAINS :
          /\ MovedToward(domains[d].ask_threshold, domains'[d].ask_threshold,
                         RunProposal(d).proposed_ask_threshold,
                         runtime'.adaptive_learning.max_daily_step)
          /\ MovedToward(domains[d].auto_threshold, domains'[d].auto_threshold,
                         RunProposal(d).proposed_auto_threshold,
                         runtime'.adaptive_learning.max_daily_step) ]_vars

\* a run with the default step of 0.02 has raised travel's auto_threshold from
\* 0.90 to 0.92 only, the corrections at confidence 0.95 proposing 0.96
C37_Witness ==
  /\ last.op = "learn"
  /\ last.result.domains_updated > 0
  /\ runtime.adaptive_learning.max_daily_step = ADAPTIVE_DEFAULTS.max_daily_step
  /\ domains["travel"].auto_threshold =
       DOMAIN_DEFAULTS["travel"].auto_threshold + ADAPTIVE_DEFAULTS.max_daily_step
  /\ computeAdaptiveDomainProposal(DOMAIN_DEFAULTS["travel"],
                                   SelectSeq(learning_events,
                                             LAMBDA event : event.domain = "travel"),
                                   runtime.adaptive_learning).proposed_auto_threshold = 960

\* the min_interval_hours the run that has just ended resolved: the option
\* of the call, or else the stored value
RunInterval ==
  IF last'.id.min_interval_hours = Absent THEN runtime.adaptive_learning.min_interval_hours
  ELSE clamp(last'.id.min_interval_hours, 1, 72)

\* the run that has just ended started less than min_interval_hours after
\* last_run_at
StartedEarly ==
  /\ runtime.adaptive_learning.last_run_at # NoTs
  /\ now - runtime.adaptive_learning.last_run_at < RunInterval

C39_ConfirmationCountersAddUp ==
  learning_stats.ask_user_confirmations =
    learning_stats.user_confirms + learning_stats.user_rejects + learning_stats.user_edits

\* the tentatives a promote_review_queue call with these options may promote
QueueEligible(options) ==
  { i \in 1..Len(tentative_observations) :
      /\ tentative_observations[i].promoted_at = NoTs
      /\ options.entity_id = "" \/ tentative_observations[i].entity_id = options.entity_id
      /\ options.domain = "" \/ tentative_observations[i].domain = options.domain
      /\ tentative_observations[i].confidence >=
           (IF options.min_confidence = Absent THEN 400 ELSE options.min_confidence)
      /\ tentative_observations[i].event_id \notin OriginIds(pending_confirmations) }

\* min(limit, remaining): limit defaults to 5, max_pending to 10, and the
\* pending prompts counted are those of the call's entity and domain
QueueQuota(options) ==
  LET limit == IF options.limit = Absent THEN 5 ELSE options.limit
      maxPending == IF options.max_pending = Absent THEN 10 ELSE options.max_pending
      counted == { i \in 1..Len(pending_confirmations) :
                     /\ options.entity_id = ""
                        \/ pending_confirmations[i].entity_id = options.entity_id
                     /\ options.domain = ""
                        \/ pending_confirmations[i].domain = options.domain }
  IN Min(limit, Max(0, maxPending - Cardinality(counted)))

\* confidence descending, then observed_at ascending
RanksBefore(a, b) ==
  \/ a.confidence > b.confidence
  \/ a.confidence = b.confidence /\ a.observed_at < b.observed_at

\* the tentatives the step has marked as promoted
NewlyPromoted ==
  { i \in 1..Len(tentative_observations) :
      /\ tentative_observations[i].promoted_at = NoTs
      /\ tentative_observations'[i].promoted_at # NoTs }

\* C40: promote_review_queue promotes exactly the first min(limit, remaining)
\* eligible tentatives in the order confidence descending, then observed_at
\* ascending; a tentative is eligible only if it has no promoted_at, matches
\* the entity / domain filter, has confidence >= min_confidence and its event_id
\* is not referenced by a pending prompt.  Every other tentative is left as it
\* was, so that no tentative is promoted twice.
C40_PromotesFirstEligible ==
  [][ last'.op = "promote_queue" =>
        LET options == last'.id
            added == SubSeq(pending_confirmations', Len(pending_confirmations) + 1,
                            Len(pending_confirmations'))
            tentativeOf(k) == CHOOSE i \in NewlyPromoted :
                                tentative_observations'[i].prompt_id = added[k].prompt_id
        IN /\ Len(tentative_observations') = Len(tentative_observations)
           /\ NewlyPromoted \subseteq QueueEligible(options)
           /\ Cardinality(NewlyPromoted) =
                Min(QueueQuota(options), Cardinality(QueueEligible(options)))
           /\ \A i \in NewlyPromoted, j \in QueueEligible(options) \ NewlyPromoted :
                ~RanksBefore(tentative_observations[j], tentative_observations[i])
           /\ \A i \in (1..Len(tentative_observations)) \ NewlyPromoted :
                tentative_observations'[i] = tentative_observations[i]
           /\ SubSeq(pending_confirmations', 1, Len(pending_confirmations))
                = pending_confirmations
           /\ Len(added) = Cardinality(NewlyPromoted)
           /\ last'.result.promoted = Cardinality(NewlyPromoted)
           /\ \A k \in 1..Len(added) :
                /\ \E i \in NewlyPromoted :
                     /\ tentative_observations'[i].prompt_id = added[k].prompt_id
                     /\ tentative_observations'[i].promoted_at = now
                     /\ added[k].observation_event.event_id = tentative_observations[i].event_id
                /\ \A l \in (k + 1)..Len(added) :
                     ~RanksBefore(tentative_observations[tentativeOf(l)],
                                  tentative_observations[tentativeOf(k)]) ]_vars

\* a call with limit 1 has promoted the second of two tentatives, the one of
\* confidence 0.54, and left the older one of confidence 0.408 in the queue
C40_Witness ==
  /\ last.op = "promote_queue"
  /\ last.id.limit = 1
  /\ last.result.promoted = 1
  /\ Len(tentative_observations) = 2
  /\ tentative_observations[1].promoted_at = NoTs
  /\ tentative_observations[1].confidence = 408
  /\ tentative_observations[2].promoted_at # NoTs
  /\ tentative_observations[2].confidence = 540
  /\ tentative_observations[1].observed_at < tentative_observations[2].observed_at

====
